---- MODULE Spec2Model ----
(***************************************************************************)
(* A model of the analysis pipeline of the surgical workflow repository    *)
(* (src/src/analyzer.py, class SurgicalAnalyzer).                          *)
(*                                                                         *)
(* Numbers.  Column values are integers.  A mean is kept exactly, as the   *)
(* record [s |-> sum, n |-> count]; n = 0 is the mean of nothing, which    *)
(* pandas reports as NaN.  A Pearson coefficient is kept exactly as        *)
(* [kind |-> "num", num |-> Sxy, den2 |-> Sxx * Syy], standing for         *)
(* Sxy / sqrt(Sxx * Syy), or as [kind |-> "nan"]; comparisons with a       *)
(* rational threshold p/q are made on squares, so no rounding is involved. *)
(* Sensor readings and the thresholds of _name_surgical_phase are counted  *)
(* in tenths (1.8 is 18).                                                  *)
(***************************************************************************)
EXTENDS Integers, Sequences, FiniteSets, TLC

VARIABLES
    procedures,               \* the procedures collection (sequence of rows)
    tool_metrics,             \* the tool-usage collection (sequence of rows)
    sensor_data,              \* the sensor-sample collection (sequence of rows)
    scaler,                   \* SurgicalAnalyzer.scaler: its current fit
    procedure_cluster_model,  \* SurgicalAnalyzer.procedure_cluster_model
    outlier_detector,         \* SurgicalAnalyzer.outlier_detector
    outcome,                  \* what the last engine call returned or raised
    ncalls,                   \* calls made so far
    lib,                      \* what the library estimators answered so far
    log,                      \* the calls made so far, with their results
    db,                       \* the tables of the SQLite file at db_path
    files                     \* the files under data_path/raw

vars == <<procedures, tool_metrics, sensor_data, scaler, procedure_cluster_model,
          outlier_detector, outcome, ncalls, lib, log, db, files>>

(***************************************************************************)
(* Bounds of the model.                                                    *)
(***************************************************************************)
MaxProcs == 4

(***************************************************************************)
(* Arithmetic and sequence helpers.                                        *)
(***************************************************************************)
Abs(a) == IF a < 0 THEN -a ELSE a

RECURSIVE GCD(_, _)
GCD(a, b) == IF b = 0 THEN a ELSE GCD(b, a % b)

LCM(a, b) == (a * b) \div GCD(a, b)

RECURSIVE SumSeq(_)
SumSeq(s) == IF s = <<>> THEN 0 ELSE Head(s) + SumSeq(Tail(s))

RECURSIVE LCMSeq(_)
LCMSeq(s) == IF s = <<>> THEN 1 ELSE LCM(Head(s), LCMSeq(Tail(s)))

Column(rows, c) == [i \in 1..Len(rows) |-> rows[i][c]]

Range(s) == {s[i] : i \in 1..Len(s)}

\* a Series of integers seen as exact numbers
Exact(col) == [i \in 1..Len(col) |-> [s |-> col[i], n |-> 1]]

\* Series.mean(): NaN (n = 0) for an empty series
Mean(col) == [s |-> SumSeq(col), n |-> Len(col)]

\* integers proportional to a series of exact numbers (common denominator)
Scaled(col) ==
    LET L == LCMSeq([i \in 1..Len(col) |-> col[i].n])
    IN  [i \in 1..Len(col) |-> col[i].s * (L \div col[i].n)]

(***************************************************************************)
(* groupby('procedure_id').agg(...) and merge(on='procedure_id').          *)
(***************************************************************************)
EventsOf(tools, pid) == SelectSeq(tools, LAMBDA e : e.procedure_id = pid)

\* the inner join keeps, in the order of the left table, every procedure
\* row whose procedure_id has a group in the aggregated tool table
Joined(procs, tools) ==
    SelectSeq(procs, LAMBDA p : EventsOf(tools, p.procedure_id) # <<>>)

\* the merged row of analyze_tool_performance_correlation
MergedRow(p, tools) ==
    LET ev == EventsOf(tools, p.procedure_id)
    IN  [procedure_id       |-> p.procedure_id,
         duration_minutes   |-> [s |-> p.duration_minutes, n |-> 1],
         efficiency_score   |-> [s |-> p.efficiency_score, n |-> 1],
         blood_loss_ml      |-> [s |-> p.blood_loss_ml, n |-> 1],
         complications      |-> [s |-> p.complications, n |-> 1],
         usage_time_minutes |-> [s |-> SumSeq(Column(ev, "usage_time_minutes")), n |-> 1],
         max_force_applied  |-> Mean(Column(ev, "max_force_applied")),
         avg_temperature_c  |-> Mean(Column(ev, "avg_temperature_c")),
         efficiency_rating  |-> Mean(Column(ev, "efficiency_rating"))]

merged_data(procs, tools) ==
    LET j == Joined(procs, tools)
    IN  [i \in 1..Len(j) |-> MergedRow(j[i], tools)]

(***************************************************************************)
(* scipy.stats.pearsonr on two equally long series.                        *)
(***************************************************************************)
Sxy(x, y) ==
    Len(x) * SumSeq([i \in 1..Len(x) |-> x[i] * y[i]]) - SumSeq(x) * SumSeq(y)

Sxx(x) == Sxy(x, x)

IsConstant(x) == \A i \in 1..Len(x) : x[i] = x[1]

NaN == [kind |-> "nan"]

pearsonr(xs, ys) ==
    LET x == Scaled(xs)
        y == Scaled(ys)
    IN  IF Len(x) < 2 THEN [kind |-> "raise"]
        ELSE IF IsConstant(x) \/ IsConstant(y) THEN NaN
        ELSE [kind |-> "num", num |-> Sxy(x, y), den2 |-> Sxx(x) * Sxx(y)]

\* the p-value pearsonr returns with r: 1 for two points, otherwise the
\* two-sided tail of the distribution of r for n points (kept symbolic)
p_value_of(r, n) ==
    IF r = NaN THEN NaN
    ELSE IF n = 2 THEN [kind |-> "num", num |-> 1, den2 |-> 1]
    ELSE [kind |-> "tail", r |-> r, n |-> n]

(***************************************************************************)
(* Comparisons of a coefficient with a threshold given in tenths.  Every   *)
(* comparison with NaN is false.                                           *)
(***************************************************************************)
MinCorrTenths == 1
StrongTenths == 5
ModerateTenths == 3

AbsGt(c, t) == c.kind = "num" /\ 100 * c.num * c.num > t * t * c.den2

AbsEq(c, t) == c.kind = "num" /\ 100 * c.num * c.num = t * t * c.den2

AbsLt(c, t) == c.kind = "num" /\ 100 * c.num * c.num < t * t * c.den2

Positive(c) == c.kind = "num" /\ c.num > 0

Negative(c) == c.kind = "num" /\ c.num < 0

(***************************************************************************)
(* SurgicalAnalyzer._interpret_correlation                                 *)
(***************************************************************************)
strength_of(corr) ==
    IF AbsGt(corr, StrongTenths) THEN "strong"
    ELSE IF AbsGt(corr, ModerateTenths) THEN "moderate"
    ELSE "weak"

direction_of(corr) == IF Positive(corr) THEN "positive" ELSE "negative"

\* the key built with the outcome first
KeyOutcomeFirst(feature, metric) == metric \o "_" \o feature

Key(feature, metric) == feature \o "_" \o metric

interpretations(strength, direction) ==
    ("max_force_applied_duration_minutes" :>
        (strength \o " " \o direction
            \o " relationship between maximum force and procedure duration"))
    @@ ("efficiency_rating_efficiency_score" :>
        (strength \o " " \o direction
            \o " relationship between tool efficiency and overall procedure efficiency"))
    @@ ("usage_time_minutes_blood_loss_ml" :>
        (strength \o " " \o direction
            \o " relationship between tool usage time and blood loss"))

_interpret_correlation(corr, feature, metric) ==
    LET strength  == strength_of(corr)
        direction == direction_of(corr)
        table     == interpretations(strength, direction)
        key       == Key(feature, metric)
    IN  IF key \in DOMAIN table THEN table[key]
        ELSE strength \o " " \o direction \o " correlation"

(***************************************************************************)
(* SurgicalAnalyzer.analyze_tool_performance_correlation                   *)
(***************************************************************************)
metrics == <<"duration_minutes", "efficiency_score", "blood_loss_ml", "complications">>

tool_features ==
    <<"usage_time_minutes", "max_force_applied", "avg_temperature_c", "efficiency_rating">>

\* the k-th (metric, feature) pair of the nested loop, metric outermost
PairAt(k) ==
    [metric  |-> metrics[((k - 1) \div Len(tool_features)) + 1],
     feature |-> tool_features[((k - 1) % Len(tool_features)) + 1]]

NPairs == Len(metrics) * Len(tool_features)

EmptyDict == [k \in {} |-> TRUE]

\* dict[key] = value
Put(dict, key, value) == (key :> value) @@ dict

PairCorr(md, pair) == pearsonr(Column(md, pair.feature), Column(md, pair.metric))

\* corr > 0.1, the absolute value forgotten
ReportCorrSigned(corr) == Positive(corr) /\ AbsGt(corr, MinCorrTenths)

ReportCorr(corr) == AbsGt(corr, MinCorrTenths)

RECURSIVE CorrLoop(_, _, _)
CorrLoop(md, k, correlations) ==
    IF k > NPairs THEN [raised |-> FALSE, value |-> correlations]
    ELSE LET pair == PairAt(k)
             corr == PairCorr(md, pair)
         IN  IF corr.kind = "raise" THEN [raised |-> TRUE, error |-> "ValueError",
                                          raised_by |-> "pearsonr"]
             ELSE IF ReportCorr(corr)
             THEN CorrLoop(md, k + 1,
                      Put(correlations, Key(pair.feature, pair.metric),
                          [correlation    |-> corr,
                           p_value        |-> p_value_of(corr, Len(md)),
                           interpretation |->
                               _interpret_correlation(corr, pair.feature, pair.metric)]))
             ELSE CorrLoop(md, k + 1, correlations)

analyze_tool_performance_correlation(procs, tools) ==
    CorrLoop(merged_data(procs, tools), 1, EmptyDict)

(***************************************************************************)
(* Python floats (IEEE 754 binary64), for perform_power_analysis.  A       *)
(* positive float is [m |-> mantissa, e |-> exponent], standing for        *)
(* m * 2^e with a mantissa of exactly MantissaBits bits; every operation   *)
(* rounds its exact result to the nearest such number, ties to even.       *)
(* Mantissas exceed the integers of the checker, so they are kept as       *)
(* sequences of limbs, least significant first, without leading zeros.     *)
(***************************************************************************)
MantissaBits == 53

LimbBits == 14

Limbs == 9

Base == 2^LimbBits

\* a natural number is the sequence of its Limbs digits in base Base, least
\* significant first
BZero == [k \in 1..Limbs |-> 0]

BFromInt(n) ==
    [k \in 1..Limbs |->
        IF (k - 1) * LimbBits < 31 THEN (n \div 2^((k - 1) * LimbBits)) % Base ELSE 0]

BToInt(x) == x[1] + Base * x[2] + Base * Base * x[3]

\* the digits of a number given by digit sums below 2 * Base - 1
Carry1(w) ==
    [k \in 1..Limbs |->
        LET carry == IF \E j \in 1..(k - 1) :
                            /\ w[j] >= Base
                            /\ \A i \in (j + 1)..(k - 1) : w[i] = Base - 1
                     THEN 1 ELSE 0
        IN  (w[k] + carry) % Base]

\* moves what exceeds a digit one place up
Split(c) ==
    [k \in 1..Limbs |-> (c[k] % Base) + (IF k = 1 THEN 0 ELSE c[k - 1] \div Base)]

BAdd(x, y) == Carry1([k \in 1..Limbs |-> x[k] + y[k]])

\* x - y for x >= y
BSub(x, y) ==
    [k \in 1..Limbs |->
        LET borrow == IF \E j \in 1..(k - 1) :
                             /\ x[j] < y[j]
                             /\ \A i \in (j + 1)..(k - 1) : x[i] = y[i]
                      THEN 1 ELSE 0
        IN  (x[k] - y[k] - borrow + Base) % Base]

BLess(x, y) ==
    \E j \in 1..Limbs : x[j] < y[j] /\ \A i \in (j + 1)..Limbs : x[i] = y[i]

\* x * d for a digit d
BMulSmall(x, d) == Carry1(Split([k \in 1..Limbs |-> x[k] * d]))

BMul(x, y) ==
    Carry1(Split(Split(
        [k \in 1..Limbs |-> SumSeq([i \in 1..k |-> x[i] * y[k + 1 - i]])])))

BShl(x, s) ==
    LET q == s \div LimbBits
        r == s % LimbBits
    IN  [k \in 1..Limbs |->
            IF k - q < 1 THEN 0
            ELSE ((x[k - q] * 2^r) % Base)
                 + (IF k - q < 2 THEN 0 ELSE x[k - q - 1] \div 2^(LimbBits - r))]

BShr(x, s) ==
    LET q == s \div LimbBits
        r == s % LimbBits
    IN  [k \in 1..Limbs |->
            IF k + q > Limbs THEN 0
            ELSE (x[k + q] \div 2^r)
                 + (IF k + q + 1 > Limbs THEN 0
                    ELSE (x[k + q + 1] % 2^r) * 2^(LimbBits - r))]

BitLen(n) == CHOOSE l \in 0..LimbBits : n < 2^l /\ (l = 0 \/ n >= 2^(l - 1))

TopLimb(x) == CHOOSE k \in 1..Limbs : x[k] # 0 /\ \A i \in (k + 1)..Limbs : x[i] = 0

BBitLen(x) ==
    IF x = BZero THEN 0 ELSE LimbBits * (TopLimb(x) - 1) + BitLen(x[TopLimb(x)])

BIsOdd(x) == x[1] % 2 = 1

\* the digit r \div b for r < b * Base, found between the bounds that the
\* leading bits of r and b give
QuotientDigit(r, b) ==
    LET n  == BBitLen(b)
        s  == IF n > LimbBits + 1 THEN n - (LimbBits + 1) ELSE 0
        b1 == BToInt(BShr(b, s))
        r1 == BToInt(BShr(r, s))
        lo == r1 \div (b1 + 1)
        hi == IF (r1 + 1) \div b1 < Base THEN (r1 + 1) \div b1 ELSE Base - 1
    IN  CHOOSE d \in lo..hi :
            /\ ~BLess(r, BMulSmall(b, d))
            /\ (d = Base - 1 \/ BLess(r, BMulSmall(b, d + 1)))

\* long division of a by b # 0, a digit of a at a time from the top: st holds
\* the quotient q and the remainder r of the digits of a above digit i
RECURSIVE BDivStep(_, _, _, _)
BDivStep(a, b, i, st) ==
    IF i = 0 THEN st
    ELSE LET r  == [k \in 1..Limbs |-> IF k = 1 THEN a[i] ELSE st.r[k - 1]]
             d  == QuotientDigit(r, b)
             nx == [q |-> [k \in 1..Limbs |-> IF k = 1 THEN d ELSE st.q[k - 1]],
                    r |-> BSub(r, BMulSmall(b, d))]
         IN  IF nx.r = nx.r THEN BDivStep(a, b, i - 1, nx) ELSE nx

BDivMod(a, b) ==
    IF a = BZero THEN [q |-> BZero, r |-> BZero]
    ELSE BDivStep(a, b, TopLimb(a), [q |-> BZero, r |-> BZero])

\* n * 2^e (n > 0, and something more below its last bit when sticky)
\* rounded to the nearest float, ties to even
FRound(n, e, sticky) ==
    LET len == BBitLen(n)
    IN  IF len <= MantissaBits
        THEN [m |-> BShl(n, MantissaBits - len), e |-> e - (MantissaBits - len)]
        ELSE LET s    == len - MantissaBits
                 q    == BShr(n, s)
                 rem  == BSub(n, BShl(q, s))
                 half == BShl(BFromInt(1), s - 1)
                 up   == BLess(half, rem) \/ (rem = half /\ (sticky \/ BIsOdd(q)))
                 q2   == IF up THEN BAdd(q, BFromInt(1)) ELSE q
             IN  IF BBitLen(q2) > MantissaBits
                 THEN [m |-> BShr(q2, 1), e |-> e + s + 1]
                 ELSE [m |-> q2, e |-> e + s]

\* the float a decimal literal num/den denotes
FLiteral(num, den) ==
    LET dm == BDivMod(BShl(BFromInt(num), 64), BFromInt(den))
    IN  FRound(dm.q, -64, dm.r # BZero)

FFromInt(n) == FRound(BFromInt(n), 0, FALSE)

FMul(a, b) == FRound(BMul(a.m, b.m), a.e + b.e, FALSE)

FDiv(a, b) ==
    LET dm == BDivMod(BShl(a.m, 56), b.m)
    IN  FRound(dm.q, a.e - b.e - 56, dm.r # BZero)

\* int(a): truncation toward zero of a positive float
FTrunc(a) == IF a.e >= 0 THEN BToInt(BShl(a.m, a.e)) ELSE BToInt(BShr(a.m, -a.e))

(***************************************************************************)
(* SurgicalAnalyzer.perform_power_analysis                                 *)
(***************************************************************************)
\* the literals 0.2, 0.5, 0.8: their text (which is also how Python prints
\* the float) and the decimal fraction they denote
effect_sizes ==
    << [text |-> "0.2", num |-> 2, den |-> 10],
       [text |-> "0.5", num |-> 5, den |-> 10],
       [text |-> "0.8", num |-> 8, den |-> 10] >>

\* effect_size ** 2
Squared(x) == FMul(x, x)

\* int(16 / (effect_size ** 2))
required_n(effect_size) ==
    FTrunc(FDiv(FFromInt(16), Squared(FLiteral(effect_size.num, effect_size.den))))

PowerEntry(effect_size) ==
    LET n == required_n(effect_size)
    IN  [effect_size          |-> effect_size.text,
         required_sample_size |-> n,
         interpretation       |->
             "Requires " \o ToString(n) \o " procedures to detect "
                 \o effect_size.text \o " effect size with 80% power"]

RECURSIVE PowerLoop(_, _)
PowerLoop(k, entries) ==
    IF k > Len(effect_sizes) THEN entries
    ELSE PowerLoop(k + 1,
             Put(entries, "effect_size_" \o effect_sizes[k].text,
                 PowerEntry(effect_sizes[k])))

\* the dictionary the loop builds: it depends on no argument
power_analysis == PowerLoop(1, EmptyDict)

\* sample sizes that grow with the collection
perform_power_analysis_on_data(procs, metric) ==
    [raised |-> FALSE,
     value  |-> [k \in DOMAIN power_analysis |->
                    [power_analysis[k] EXCEPT !.required_sample_size = @ + Len(procs)]]]

perform_power_analysis(procs, metric) == [raised |-> FALSE, value |-> power_analysis]

(***************************************************************************)
(* The analyzer as constructed (SurgicalAnalyzer.__init__) and the state   *)
(* before any engine call.                                                 *)
(***************************************************************************)
None == [kind |-> "None"]

Unfitted == [fitted |-> FALSE]

NoCall == [op |-> "none"]

\* a data path nothing has been written to yet
Missing == [exists |-> FALSE]

NoFiles ==
    [procedures |-> Missing, tool_metrics |-> Missing,
     surgical_notes |-> Missing, sensor_data |-> Missing]

\* a database file nobody has opened yet
NoTables == [kind |-> "None"]

Constructed ==
    /\ scaler = Unfitted
    /\ procedure_cluster_model = None
    /\ outlier_detector = None
    /\ outcome = NoCall
    /\ ncalls = 0
    /\ lib = EmptyDict
    /\ log = <<>>

(***************************************************************************)
(* sklearn.preprocessing.StandardScaler on a table of exact numbers: a     *)
(* fit keeps the number of rows seen and the mean and variance of every    *)
(* column; a standardized value z is kept as its sign and its square.      *)
(***************************************************************************)
Sign(a) == IF a > 0 THEN 1 ELSE IF a < 0 THEN -1 ELSE 0

\* an exact number in lowest terms
Reduced(x) ==
    LET g == GCD(Abs(x.s), x.n)
    IN  [s |-> x.s \div g, n |-> x.n \div g]

\* column j of a table given as a sequence of rows
FeatureColumn(X, j) == [i \in 1..Len(X) |-> X[i][j]]

\* StandardScaler.fit: mean_ and var_ (population variance) of every column
Fit(X, ncols) ==
    [fitted          |-> TRUE,
     n_samples_seen_ |-> Len(X),
     mean_ |-> [j \in 1..ncols |->
                   LET col == FeatureColumn(X, j)
                       L   == LCMSeq([i \in 1..Len(col) |-> col[i].n])
                   IN  Reduced([s |-> SumSeq(Scaled(col)), n |-> Len(X) * L])],
     var_  |-> [j \in 1..ncols |->
                   LET col == FeatureColumn(X, j)
                       L   == LCMSeq([i \in 1..Len(col) |-> col[i].n])
                       y   == Scaled(col)
                   IN  Reduced([s |-> Sxx(y), n |-> Len(X) * Len(X) * L * L])]]

\* (x - mean) / scale, the scale being the standard deviation, or 1 for a
\* column of variance 0
Standardized(x, mean, var) ==
    LET d == [s |-> x.s * mean.n - mean.s * x.n, n |-> x.n * mean.n]
    IN  [sgn |-> Sign(d.s),
         sq  |-> IF var.s = 0 THEN Reduced([s |-> d.s * d.s, n |-> d.n * d.n])
                 ELSE Reduced([s |-> d.s * d.s * var.n, n |-> d.n * d.n * var.s])]

\* StandardScaler.transform with a given fit
Transform(fit, X) ==
    [i \in 1..Len(X) |->
        [j \in 1..Len(X[i]) |-> Standardized(X[i][j], fit.mean_[j], fit.var_[j])]]

\* transform() in the place of fit_transform(): a scaler that was fitted
\* before keeps its fit, and refuses a table of another width
fit_transform_keeping_fit(sc, X, ncols) ==
    IF Len(X) = 0
    THEN [raised |-> TRUE, error |-> "ValueError",
          raised_by |-> "StandardScaler", scaler |-> sc]
    ELSE IF ~sc.fitted
    THEN [raised |-> FALSE, scaler |-> Fit(X, ncols),
          X_scaled |-> Transform(Fit(X, ncols), X)]
    ELSE IF Len(sc.mean_) # ncols
    THEN [raised |-> TRUE, error |-> "ValueError",
          raised_by |-> "StandardScaler", scaler |-> sc]
    ELSE [raised |-> FALSE, scaler |-> sc, X_scaled |-> Transform(sc, X)]

\* a scaler that a refused fit leaves unusable: it refuses every later table
fit_transform_latching_failure(sc, X, ncols) ==
    IF Len(X) = 0 \/ "failed" \in DOMAIN sc
    THEN [raised |-> TRUE, error |-> "ValueError",
          raised_by |-> "StandardScaler",
          scaler |-> [fitted |-> FALSE, failed |-> TRUE]]
    ELSE [raised |-> FALSE, scaler |-> Fit(X, ncols),
          X_scaled |-> Transform(Fit(X, ncols), X)]

\* StandardScaler.fit_transform: the previous fit is dropped (fit resets the
\* scaler before it validates X) and a table without rows is refused
fit_transform(sc, X, ncols) ==
    IF Len(X) = 0
    THEN [raised |-> TRUE, error |-> "ValueError",
          raised_by |-> "StandardScaler", scaler |-> Unfitted]
    ELSE LET fit == Fit(X, ncols)
         IN  [raised |-> FALSE, scaler |-> fit, X_scaled |-> Transform(fit, X)]

(***************************************************************************)
(* The library estimators.  What an estimator answers is a function of its *)
(* parameters, its random_state and the data it is given; lib records the  *)
(* answers given so far, and an answer not yet given is any admissible     *)
(* one.                                                                    *)
(***************************************************************************)
\* a seed that changes from call to call
kmeans_random_state_per_call == 42 + ncalls

\* KMeans(n_clusters=n_clusters, random_state=42)
kmeans_random_state == 42

\* IsolationForest(contamination=0.1, random_state=42)
forest_random_state == 42

SameRow(X, i, j) == X[i] = X[j]

\* the first row equal to row i
FirstLike(X, i) == CHOOSE j \in 1..i : SameRow(X, i, j) /\ \A k \in 1..(j - 1) : ~SameRow(X, i, k)

\* sets of rows that hold, with a row, every row equal to it
ClosedRowSets(X) ==
    {S \in SUBSET (1..Len(X)) :
        \A i \in S, j \in 1..Len(X) : SameRow(X, i, j) => j \in S}

ContaminationTenths == 1

\* IsolationForest.fit_predict flags (-1) the rows whose score is strictly
\* below the contamination percentile of the scores: at most
\* ceil(contamination * (n - 1)) rows, and equal rows alike
MaxFlagged(n) == (ContaminationTenths * (n - 1) + 9) \div 10

IsolationForestAnswers(X) ==
    {[i \in 1..Len(X) |-> IF i \in S THEN -1 ELSE 1] :
        S \in {T \in ClosedRowSets(X) : Cardinality(T) <= MaxFlagged(Len(X))}}

IsolationForestKey(X, seed) ==
    [estimator |-> "IsolationForest", parameter |-> ContaminationTenths,
     random_state |-> seed, X |-> X]

\* the answers the library may give to a request
Answers(key, admissible) == IF key \in DOMAIN lib THEN {lib[key]} ELSE admissible

(***************************************************************************)
(* SurgicalAnalyzer._identify_outlier_causes                               *)
(***************************************************************************)
DurationLimit == 200
EfficiencyLimit == 60
BloodLossLimit == 300
InstrumentChangesLimit == 6

\* the duration rule with >= in the place of >
_identify_outlier_causes_inclusive(procedure) ==
    LET causes ==
            (IF procedure.duration_minutes >= DurationLimit
             THEN <<"Extended procedure duration">> ELSE <<>>)
            \o (IF procedure.efficiency_score < EfficiencyLimit
                THEN <<"Low efficiency score">> ELSE <<>>)
            \o (IF procedure.blood_loss_ml > BloodLossLimit
                THEN <<"High blood loss">> ELSE <<>>)
            \o (IF procedure.instrument_changes > InstrumentChangesLimit
                THEN <<"Frequent instrument changes">> ELSE <<>>)
    IN  IF causes # <<>> THEN causes ELSE <<"Complex case factors">>

_identify_outlier_causes(procedure) ==
    LET causes ==
            (IF procedure.duration_minutes > DurationLimit
             THEN <<"Extended procedure duration">> ELSE <<>>)
            \o (IF procedure.efficiency_score < EfficiencyLimit
                THEN <<"Low efficiency score">> ELSE <<>>)
            \o (IF procedure.blood_loss_ml > BloodLossLimit
                THEN <<"High blood loss">> ELSE <<>>)
            \o (IF procedure.instrument_changes > InstrumentChangesLimit
                THEN <<"Frequent instrument changes">> ELSE <<>>)
    IN  IF causes # <<>> THEN causes ELSE <<"Complex case factors">>

(***************************************************************************)
(* SurgicalAnalyzer.identify_efficiency_outliers                           *)
(***************************************************************************)
EfficiencyRow(p, tools) ==
    LET ev == EventsOf(tools, p.procedure_id)
    IN  [procedure_id              |-> p.procedure_id,
         procedure_type            |-> p.procedure_type,
         duration_minutes          |-> p.duration_minutes,
         efficiency_score          |-> p.efficiency_score,
         blood_loss_ml             |-> p.blood_loss_ml,
         complications             |-> p.complications,
         instrument_changes        |-> p.instrument_changes,
         usage_time_minutes        |-> SumSeq(Column(ev, "usage_time_minutes")),
         efficiency_rating         |-> Mean(Column(ev, "efficiency_rating")),
         tissue_sticking_incidents |-> SumSeq(Column(ev, "tissue_sticking_incidents"))]

\* the merge as a left join: every procedure row, the aggregates of a
\* procedure without tool-usage rows taken as 0
efficiency_data_left_join(procs, tools) ==
    [i \in 1..Len(procs) |->
        IF EventsOf(tools, procs[i].procedure_id) # <<>>
        THEN EfficiencyRow(procs[i], tools)
        ELSE [EfficiencyRow(procs[i], tools) EXCEPT
                 !.efficiency_rating = [s |-> 0, n |-> 1]]]

efficiency_data(procs, tools) ==
    LET j == Joined(procs, tools)
    IN  [i \in 1..Len(j) |-> EfficiencyRow(j[i], tools)]

outlier_features ==
    <<"duration_minutes", "efficiency_score", "usage_time_minutes",
      "efficiency_rating", "blood_loss_ml", "instrument_changes">>

\* efficiency_data[outlier_features] as a table of exact numbers
OutlierX(ed) ==
    [i \in 1..Len(ed) |->
        [j \in 1..Len(outlier_features) |->
            IF outlier_features[j] = "efficiency_rating" THEN ed[i].efficiency_rating
            ELSE [s |-> ed[i][outlier_features[j]], n |-> 1]]]

\* the call up to the request it makes to the library, if it gets that far
OutlierRequest(sc, procs, tools) ==
    LET ed == efficiency_data(procs, tools)
        ft == fit_transform(sc, OutlierX(ed), Len(outlier_features))
    IN  IF ft.raised THEN [made |-> FALSE, efficiency_data |-> ed, ft |-> ft]
        ELSE [made |-> TRUE, efficiency_data |-> ed, ft |-> ft,
              key |-> IsolationForestKey(ft.X_scaled, forest_random_state)]

OutlierEntry(procedure) ==
    [procedure_type   |-> procedure.procedure_type,
     duration         |-> procedure.duration_minutes,
     efficiency_score |-> procedure.efficiency_score,
     blood_loss       |-> procedure.blood_loss_ml,
     likely_causes    |-> _identify_outlier_causes(procedure)]

\* the rate taken over all the procedures, joined or not
OutlierPopulationAll(procs, ed) == Len(procs)

\* the number the rate is divided by
OutlierPopulation(procs, ed) == Len(ed)

\* the column is_outlier written into the caller's frame, as if
\* efficiency_data were procedures itself
procedures_flagged_in_place(procs, ed, outliers) ==
    [i \in 1..Len(procs) |->
        [c \in DOMAIN procs[i] \cup {"is_outlier"} |->
            IF c = "is_outlier"
            THEN \E k \in 1..Len(ed) :
                     ed[k].procedure_id = procs[i].procedure_id /\ outliers[k] = -1
            ELSE procs[i][c]]]

\* the caller's procedures after line 147: efficiency_data is the frame
\* merge() made, so the column is_outlier is added to that frame and the
\* caller's is left as it was
procedures_after_flagging(procs, ed, outliers) == procs

\* the rest of the call, the library answering outliers: what the call
\* returns or raises, and the scaler, the detector and the caller's
\* procedures as it leaves them
OutlierResult(rq, det, procs, outliers) ==
    LET ed == rq.efficiency_data
        ft == rq.ft
    IN  IF ft.raised
        THEN [ret |-> [raised |-> TRUE, error |-> ft.error,
                      raised_by |-> ft.raised_by],
              scaler |-> ft.scaler, outlier_detector |-> det,
              procedures |-> procs]
        ELSE LET flagged == {i \in 1..Len(ed) : outliers[i] = -1}
             IN  [ret |-> [raised |-> FALSE,
                           value  |->
                             [outlier_procedures |->
                                 [id \in {ed[i].procedure_id : i \in flagged} |->
                                     OutlierEntry(
                                         ed[CHOOSE i \in flagged : ed[i].procedure_id = id])],
                              total_outliers |-> Cardinality(flagged),
                              outlier_rate   |-> [s |-> Cardinality(flagged),
                                                  n |-> OutlierPopulation(procs, ed)]]],
                  scaler |-> ft.scaler,
                  outlier_detector |->
                      [kind |-> "IsolationForest", contamination |-> ContaminationTenths,
                       random_state |-> forest_random_state, fitted_on |-> ft.X_scaled],
                  procedures |-> procedures_after_flagging(procs, ed, outliers)]

\* the call on an analyzer whose scaler is sc and whose detector is det
identify_efficiency_outliers(sc, det, procs, tools, outliers) ==
    OutlierResult(OutlierRequest(sc, procs, tools), det, procs, outliers)

(***************************************************************************)
(* SurgicalAnalyzer._name_surgical_phase.  The thresholds are in tenths;   *)
(* a comparison with NaN (n = 0) is false.                                 *)
(***************************************************************************)
SetupForceTenths == 10
SetupCurrentTenths == 10
DissectionForceTenths == 20
DissectionCurrentTenths == 18
ManipulationForceTenths == 15
ManipulationCurrentTenths == 15

Lt(x, t) == x.n > 0 /\ 10 * x.s < t * x.n

Gt(x, t) == x.n > 0 /\ 10 * x.s > t * x.n

\* dict.get(key, default)
Get(dict, key, default) == IF key \in DOMAIN dict THEN dict[key] ELSE default

\* the current read from the wrong channel
_name_surgical_phase_wrong_channel(phase_id, phase_stats) ==
    LET force   == Get(phase_stats, "force_sensor", [s |-> 0, n |-> 1])
        current == Get(phase_stats, "vibration", [s |-> 0, n |-> 1])
    IN  IF Lt(force, SetupForceTenths) /\ Lt(current, SetupCurrentTenths)
        THEN "Setup/Preparation"
        ELSE IF Gt(force, DissectionForceTenths) /\ Gt(current, DissectionCurrentTenths)
        THEN "Active Dissection"
        ELSE IF Gt(force, ManipulationForceTenths) /\ Lt(current, ManipulationCurrentTenths)
        THEN "Precise Manipulation"
        ELSE "Closure/Finishing"

_name_surgical_phase(phase_id, phase_stats) ==
    LET force   == Get(phase_stats, "force_sensor", [s |-> 0, n |-> 1])
        current == Get(phase_stats, "motor_current", [s |-> 0, n |-> 1])
    IN  IF Lt(force, SetupForceTenths) /\ Lt(current, SetupCurrentTenths)
        THEN "Setup/Preparation"
        ELSE IF Gt(force, DissectionForceTenths) /\ Gt(current, DissectionCurrentTenths)
        THEN "Active Dissection"
        ELSE IF Gt(force, ManipulationForceTenths) /\ Lt(current, ManipulationCurrentTenths)
        THEN "Precise Manipulation"
        ELSE "Closure/Finishing"

(***************************************************************************)
(* SurgicalAnalyzer.detect_surgical_phases                                 *)
(***************************************************************************)
feature_cols == <<"force_sensor", "motor_current", "vibration", "pressure">>

\* the mean of a series of exact numbers (NaN for an empty series)
ExactMean(col) ==
    IF Len(col) = 0 THEN [s |-> 0, n |-> 0]
    ELSE Reduced([s |-> SumSeq(Scaled(col)),
                  n |-> Len(col) * LCMSeq([i \in 1..Len(col) |-> col[i].n])])

GroupKeys(sensor) ==
    {<<sensor[i].procedure_id, sensor[i].timestamp_minutes>> : i \in 1..Len(sensor)}

KeyBefore(a, b) == a[1] < b[1] \/ (a[1] = b[1] /\ a[2] <= b[2])

\* groupby sorts the groups by their keys
RECURSIVE SortedKeys(_)
SortedKeys(S) ==
    IF S = {} THEN <<>>
    ELSE LET m == CHOOSE a \in S : \A b \in S : KeyBefore(a, b)
         IN  <<m>> \o SortedKeys(S \ {m})

GroupRow(sensor, key) ==
    LET g == SelectSeq(sensor, LAMBDA r :
                 r.procedure_id = key[1] /\ r.timestamp_minutes = key[2])
    IN  [procedure_id      |-> key[1],
         timestamp_minutes |-> key[2],
         force_sensor      |-> Mean(Column(g, "force_sensor")),
         motor_current     |-> Mean(Column(g, "motor_current")),
         vibration         |-> Mean(Column(g, "vibration")),
         pressure          |-> Mean(Column(g, "pressure"))]

phase_features(sensor) ==
    LET keys == SortedKeys(GroupKeys(sensor))
    IN  [i \in 1..Len(keys) |-> GroupRow(sensor, keys[i])]

PhaseX(pf) ==
    [i \in 1..Len(pf) |-> [j \in 1..Len(feature_cols) |-> pf[i][feature_cols[j]]]]

\* KMeans.fit_predict refuses fewer rows than clusters; otherwise every row
\* gets the label of the nearest centre, equal rows the same one
KMeansAnswers(X, n_clusters) ==
    IF Len(X) < n_clusters
    THEN {[raised |-> TRUE, error |-> "ValueError", raised_by |-> "KMeans"]}
    ELSE {[raised |-> FALSE, labels |-> [i \in 1..Len(X) |-> m[FirstLike(X, i)]]] :
             m \in [{FirstLike(X, i) : i \in 1..Len(X)} -> 0..(n_clusters - 1)]}

KMeansKey(X, n_clusters, seed) ==
    [estimator |-> "KMeans", parameter |-> n_clusters, random_state |-> seed, X |-> X]

\* sklearn.metrics.silhouette_score: defined for 2 to n - 1 labels in use,
\* and then a function of the rows and their labels (kept symbolic)
silhouette_score(X, labels) ==
    LET n_labels == Cardinality(Range(labels))
    IN  IF n_labels < 2 \/ n_labels > Len(X) - 1
        THEN [raised |-> TRUE, error |-> "ValueError",
              raised_by |-> "silhouette_score"]
        ELSE [raised |-> FALSE, value |-> [silhouette_of |-> X, labels |-> labels]]

\* the call up to the request it makes to the library, if it gets that far
PhaseRequest(sc, sensor, n_clusters) ==
    LET pf == phase_features(sensor)
        ft == fit_transform(sc, PhaseX(pf), Len(feature_cols))
    IN  IF ft.raised THEN [made |-> FALSE, phase_features |-> pf, ft |-> ft]
        ELSE [made |-> TRUE, phase_features |-> pf, ft |-> ft,
              key |-> KMeansKey(ft.X_scaled, n_clusters, kmeans_random_state)]

\* phase_data[feature_cols].mean().to_dict()
PhaseStats(phase_data) ==
    [c \in Range(feature_cols) |-> ExactMean(Column(phase_data, c))]

PhaseSummaryEntry(phase, phase_data) ==
    LET n_procedures == Cardinality(Range(Column(phase_data, "procedure_id")))
    IN  [phase_name           |-> _name_surgical_phase(phase, PhaseStats(phase_data)),
         avg_duration_minutes |-> [s |-> 2 * Len(phase_data), n |-> n_procedures],
         avg_force            |-> ExactMean(Column(phase_data, "force_sensor")),
         avg_motor_current    |-> ExactMean(Column(phase_data, "motor_current")),
         n_procedures         |-> n_procedures]

UnfittedKMeans(n_clusters) ==
    [kind |-> "KMeans", n_clusters |-> n_clusters,
     random_state |-> kmeans_random_state, fitted |-> FALSE]

\* the phases summarized, were they the labels in use
SummarizedPhasesInUse(n_clusters, labels) == Range(labels)

\* for phase in range(n_clusters)
SummarizedPhases(n_clusters, labels) == 0..(n_clusters - 1)

\* the rest of the call, the library answering clusters
PhaseResult(rq, model, n_clusters, clusters) ==
    LET pf == rq.phase_features
        ft == rq.ft
    IN  IF ft.raised
        THEN [ret |-> [raised |-> TRUE, error |-> ft.error,
                      raised_by |-> ft.raised_by],
              scaler |-> ft.scaler, procedure_cluster_model |-> model]
        ELSE IF clusters.raised
        THEN [ret |-> [raised |-> TRUE, error |-> clusters.error,
                      raised_by |-> clusters.raised_by],
              scaler |-> ft.scaler,
              procedure_cluster_model |-> UnfittedKMeans(n_clusters)]
        ELSE LET assigned == [i \in 1..Len(pf) |->
                                 [procedure_id      |-> pf[i].procedure_id,
                                  timestamp_minutes |-> pf[i].timestamp_minutes,
                                  force_sensor      |-> pf[i].force_sensor,
                                  motor_current     |-> pf[i].motor_current,
                                  vibration         |-> pf[i].vibration,
                                  pressure          |-> pf[i].pressure,
                                  phase             |-> clusters.labels[i]]]
                 summary  == [phase \in SummarizedPhases(n_clusters, clusters.labels) |->
                                 PhaseSummaryEntry(phase,
                                     SelectSeq(assigned, LAMBDA r : r.phase = phase))]
                 sil      == silhouette_score(ft.X_scaled, clusters.labels)
                 fitted   == [kind |-> "KMeans", n_clusters |-> n_clusters,
                              random_state |-> kmeans_random_state, fitted |-> TRUE,
                              fitted_on |-> ft.X_scaled, labels_ |-> clusters.labels]
             IN  [ret |-> IF sil.raised
                          THEN [raised |-> TRUE, error |-> sil.error,
                                raised_by |-> sil.raised_by]
                          ELSE [raised |-> FALSE,
                                value  |-> [phase_assignments |-> assigned,
                                            phase_summary     |-> summary,
                                            silhouette_score  |-> sil.value]],
                  scaler |-> ft.scaler,
                  procedure_cluster_model |-> fitted]

\* the call on an analyzer whose scaler is sc and whose cluster model is
\* model
detect_surgical_phases(sc, model, sensor, n_clusters, clusters) ==
    PhaseResult(PhaseRequest(sc, sensor, n_clusters), model, n_clusters, clusters)

(***************************************************************************)
(* SurgicalAnalyzer.analyze_procedure_type_patterns                        *)
(***************************************************************************)
\* Series.unique(): the distinct values in order of first appearance
RECURSIVE Unique(_)
Unique(col) ==
    IF col = <<>> THEN <<>>
    ELSE LET front == Unique(SubSeq(col, 1, Len(col) - 1))
             last  == col[Len(col)]
         IN  IF last \in Range(front) THEN front ELSE Append(front, last)

\* the selection by type forgotten
type_data_unfiltered(procs, proc_type) == procs

\* procedures[procedures['procedure_type'] == proc_type]
type_data(procs, proc_type) ==
    SelectSeq(procs, LAMBDA p : p.procedure_type = proc_type)

\* tool_metrics[tool_metrics['procedure_id'].isin(type_data['procedure_id'])]
type_tools(tools, td) ==
    SelectSeq(tools, LAMBDA e : e.procedure_id \in Range(Column(td, "procedure_id")))

\* Series.value_counts()
value_counts(col) ==
    [v \in Range(col) |-> Cardinality({i \in 1..Len(col) : col[i] = v})]

\* .head(3).to_dict() of the counts in decreasing order: every count when
\* there are no more than three, the three largest otherwise.  The order
\* value_counts gives to equal counts is the installed pandas's, not this
\* code's: with a tie at the third place any of the tied tool types may be
\* among the three kept.
Head3(counts) ==
    IF Cardinality(DOMAIN counts) <= 3 THEN {counts}
    ELSE {[v \in top |-> counts[v]] :
             top \in {T \in SUBSET DOMAIN counts :
                         /\ Cardinality(T) = 3
                         /\ \A a \in T, b \in (DOMAIN counts) \ T :
                                counts[a] >= counts[b]}}

\* the dicts type_tools['tool_type'].value_counts().head(3).to_dict() may be
\* for the procedure type proc_type
common_tools(procs, tools, proc_type) ==
    Head3(value_counts(
              Column(type_tools(tools, type_data(procs, proc_type)), "tool_type")))

\* the entry of proc_type, kept being the three tool types of head(3)
PatternEntry(procs, tools, proc_type, kept) ==
    LET td == type_data(procs, proc_type)
        tt == type_tools(tools, td)
    IN  [avg_duration        |-> Mean(Column(td, "duration_minutes")),
         avg_efficiency      |-> Mean(Column(td, "efficiency_score")),
         complication_rate   |-> Mean(Column(td, "complications")),
         common_tools        |-> kept,
         avg_tool_usage_time |-> Mean(Column(tt, "usage_time_minutes")),
         n_procedures        |-> Len(td)]

\* the results the call may return: one for every way the ties of the
\* procedure types fall
analyze_procedure_type_patterns(procs, tools) ==
    LET types == Range(Unique(Column(procs, "procedure_type")))
        kept  == {k \in [types -> UNION {common_tools(procs, tools, t) : t \in types}] :
                     \A t \in types : k[t] \in common_tools(procs, tools, t)}
    IN  {[raised |-> FALSE,
          value  |-> [proc_type \in types |->
                         PatternEntry(procs, tools, proc_type, k[proc_type])]] :
            k \in kept}

(***************************************************************************)
(* Input collections.  A collection is built from a pool of cases, a case  *)
(* being the outcome columns of one procedure with the tool-usage events   *)
(* recorded for it (none: a procedure no tool was recorded for).  The      *)
(* procedure at position i gets the id i.                                  *)
(***************************************************************************)
ProcRow(id, p) ==
    [procedure_id       |-> id,
     procedure_type     |-> p.procedure_type,
     duration_minutes   |-> p.duration_minutes,
     efficiency_score   |-> p.efficiency_score,
     blood_loss_ml      |-> p.blood_loss_ml,
     complications      |-> p.complications,
     instrument_changes |-> p.instrument_changes]

ToolRow(id, e) ==
    [procedure_id              |-> id,
     tool_type                 |-> e.tool_type,
     usage_time_minutes        |-> e.usage_time_minutes,
     max_force_applied         |-> e.max_force_applied,
     avg_temperature_c         |-> e.avg_temperature_c,
     efficiency_rating         |-> e.efficiency_rating,
     tissue_sticking_incidents |-> e.tissue_sticking_incidents]

RECURSIVE Flatten(_)
Flatten(ss) == IF ss = <<>> THEN <<>> ELSE Head(ss) \o Flatten(Tail(ss))

\* the non-decreasing sequences of length n over lo..hi
RECURSIVE Sorted(_, _, _)
Sorted(n, lo, hi) ==
    IF n = 0 THEN {<<>>}
    ELSE UNION {{<<v>> \o t : t \in Sorted(n - 1, v, hi)} : v \in lo..hi}

\* the choices of at most maxn cases of a pool
Picks(pool, maxn) == UNION {Sorted(n, 1, Len(pool)) : n \in 0..maxn}

ProcTable(pool, pick) == [i \in 1..Len(pick) |-> ProcRow(i, pool[pick[i]].proc)]

ToolTable(pool, pick) ==
    Flatten([i \in 1..Len(pick) |->
        LET ev == pool[pick[i]].events
        IN  [j \in 1..Len(ev) |-> ToolRow(i, ev[j])]])

Proc(t, d, e, b, c, i) ==
    [procedure_type |-> t, duration_minutes |-> d, efficiency_score |-> e,
     blood_loss_ml |-> b, complications |-> c, instrument_changes |-> i]

Event(t, u, f, c, r, k) ==
    [tool_type |-> t, usage_time_minutes |-> u, max_force_applied |-> f,
     avg_temperature_c |-> c, efficiency_rating |-> r,
     tissue_sticking_incidents |-> k]

Case(p, ev) == [proc |-> p, events |-> ev, samples |-> <<>>]

\* Small values.  No choice of at most MaxProcs of these cases has a
\* coefficient of absolute value exactly 0.1, 0.3 or 0.5, where the rounding
\* of the floating-point computation would decide the comparison.
CorrPool ==
    << Case(Proc("Hernia Repair", 1, 1, 2, 0, 0),
            << Event("Stapler",  0, 1, 0, 0, 0) >>),
       Case(Proc("Hernia Repair", 5, 9, 7, 0, 1),
            << Event("Ligasure", 6, 8, 5, 3, 0) >>),
       Case(Proc("GI Surgery",    9, 2, 8, 1, 2),
            << Event("Ligasure", 9, 4, 3, 6, 1) >>),
       Case(Proc("GI Surgery",    7, 0, 9, 0, 3),
            << Event("Stapler",  8, 8, 2, 8, 0) >>),
       Case(Proc("Hernia Repair", 0, 5, 6, 0, 1),
            << Event("Stapler",  3, 1, 8, 1, 0), Event("Ligasure", 0, 5, 7, 3, 0) >>),
       Case(Proc("GI Surgery",    3, 7, 5, 0, 2),
            << Event("Ligasure", 4, 0, 7, 5, 1), Event("Stapler",  7, 3, 6, 2, 0) >>),
       Case(Proc("Hernia Repair", 6, 6, 3, 0, 0),
            <<>>) >>

SensorRow(id, r) ==
    [procedure_id      |-> id,
     timestamp_minutes |-> r.timestamp_minutes,
     force_sensor      |-> r.force_sensor,
     temperature       |-> r.temperature,
     motor_current     |-> r.motor_current,
     vibration         |-> r.vibration,
     pressure          |-> r.pressure]

SensorTable(pool, pick) ==
    Flatten([i \in 1..Len(pick) |->
        LET sm == pool[pick[i]].samples
        IN  [j \in 1..Len(sm) |-> SensorRow(i, sm[j])]])

Sample(ts, f, t, c, v, p) ==
    [timestamp_minutes |-> ts, force_sensor |-> f, temperature |-> t,
     motor_current |-> c, vibration |-> v, pressure |-> p]

Monitored(p, ev, sm) == [proc |-> p, events |-> ev, samples |-> sm]

\* Cases with sensor samples every 2 minutes: readings of a tool at rest
\* (no force, no current) and of a tool at work (a force above 1.5 with a
\* current below 1.5); the second case has two samples for the same minute.
FitPool ==
    << Monitored(Proc("Hernia Repair", 3, 7, 5, 0, 2),
                 << Event("Ligasure", 4, 0, 7, 5, 1) >>,
                 << Sample(0, 0, 36, 0, 0, 12), Sample(2, 3, 38, 1, 1, 12) >>),
       Monitored(Proc("GI Surgery", 9, 2, 8, 1, 7),
                 << Event("Stapler", 8, 8, 2, 8, 0), Event("Ligasure", 3, 1, 8, 1, 1) >>,
                 << Sample(0, 0, 37, 0, 0, 11), Sample(0, 0, 35, 0, 0, 13),
                    Sample(2, 3, 38, 1, 1, 12) >>) >>

MaxCases == 2

\* the collections hold the first cases of the pool: none of them, or up to
\* MaxCases of those it has
FitPicks ==
    {[i \in 1..n |-> i] :
        n \in 0..(IF MaxCases <= Len(FitPool) THEN MaxCases ELSE Len(FitPool))}

\* Procedures of one type with more tool types than head(3) keeps: four
\* used once each, and one used twice with three used once.
TiePool ==
    << Case(Proc("Hernia Repair", 5, 9, 7, 0, 1),
            << Event("Robotic Grasper",  1, 2, 3, 4, 0),
               Event("Harmonic Scalpel", 1, 3, 4, 5, 0),
               Event("Ligasure",         1, 4, 5, 6, 1),
               Event("Stapler",          1, 5, 6, 7, 0) >>),
       Case(Proc("Hernia Repair", 3, 7, 5, 0, 2),
            << Event("Stapler",          2, 5, 6, 7, 0),
               Event("Ligasure",         4, 4, 5, 6, 1),
               Event("Harmonic Scalpel", 1, 3, 4, 5, 0),
               Event("Robotic Grasper",  3, 2, 3, 4, 0),
               Event("Ligasure",         0, 1, 5, 6, 0) >>),
       Case(Proc("GI Surgery", 9, 2, 8, 1, 2),
            << Event("Ligasure",         4, 0, 7, 5, 1),
               Event("Stapler",          7, 3, 6, 2, 0),
               Event("Suction/Irrigation", 2, 3, 6, 2, 0) >>) >>

\* the collections a caller holds and makes a call on
Frames(pool, pick) ==
    [procedures   |-> ProcTable(pool, pick),
     tool_metrics |-> ToolTable(pool, pick),
     sensor_data  |-> SensorTable(pool, pick)]

CorrFrames == {Frames(CorrPool, pick) : pick \in Picks(CorrPool, MaxProcs)}

TieFrames == {Frames(TiePool, pick) : pick \in Picks(TiePool, MaxCases)}

FitFrames == {Frames(FitPool, pick) : pick \in FitPicks}

MaxCalls == 2

\* the cluster counts detect_surgical_phases is called with (4 by default)
ClusterCounts == {2, 4}

(***************************************************************************)
(* The calls, as actions on the analyzer.  A call is made on the           *)
(* collections args of its caller; procedures, tool_metrics and            *)
(* sensor_data are these collections as the call leaves them.              *)
(***************************************************************************)
Called(op, args, ret) ==
    [op |-> op, procedures |-> args.procedures, tool_metrics |-> args.tool_metrics,
     sensor_data |-> args.sensor_data, ret |-> ret]

AnalyzeToolPerformanceCorrelation(args) ==
    /\ ncalls < MaxCalls
    /\ \E ret \in {analyze_tool_performance_correlation(
                        args.procedures, args.tool_metrics)} :
          /\ outcome' = [op |-> "analyze_tool_performance_correlation", ret |-> ret]
          /\ log' = Append(log, Called("analyze_tool_performance_correlation",
                                       args, ret))
    /\ ncalls' = ncalls + 1
    /\ procedures' = args.procedures
    /\ tool_metrics' = args.tool_metrics
    /\ sensor_data' = args.sensor_data
    /\ UNCHANGED <<files, db, scaler, procedure_cluster_model, outlier_detector, lib>>

AnalyzeProcedureTypePatterns(args) ==
    /\ ncalls < MaxCalls
    /\ \E ret \in analyze_procedure_type_patterns(args.procedures, args.tool_metrics) :
          /\ outcome' = [op |-> "analyze_procedure_type_patterns", ret |-> ret]
          /\ log' = Append(log, Called("analyze_procedure_type_patterns", args, ret))
    /\ ncalls' = ncalls + 1
    /\ procedures' = args.procedures
    /\ tool_metrics' = args.tool_metrics
    /\ sensor_data' = args.sensor_data
    /\ UNCHANGED <<files, db, scaler, procedure_cluster_model, outlier_detector, lib>>

IdentifyEfficiencyOutliers(args) ==
    /\ ncalls < MaxCalls
    /\ \E rq \in {OutlierRequest(scaler, args.procedures, args.tool_metrics)} :
       \E outliers \in (IF rq.made
                        THEN Answers(rq.key, IsolationForestAnswers(rq.ft.X_scaled))
                        ELSE {<<>>}) :
       \E call \in {OutlierResult(rq, outlier_detector, args.procedures, outliers)} :
          /\ outcome' = [op |-> "identify_efficiency_outliers", ret |-> call.ret]
          /\ scaler' = call.scaler
          /\ outlier_detector' = call.outlier_detector
          /\ lib' = IF rq.made THEN Put(lib, rq.key, outliers) ELSE lib
          /\ procedures' = call.procedures
          /\ log' = Append(log, Called("identify_efficiency_outliers", args, call.ret))
    /\ ncalls' = ncalls + 1
    /\ tool_metrics' = args.tool_metrics
    /\ sensor_data' = args.sensor_data
    /\ UNCHANGED <<files, db, procedure_cluster_model>>

DetectSurgicalPhases(args, n_clusters) ==
    /\ ncalls < MaxCalls
    /\ \E rq \in {PhaseRequest(scaler, args.sensor_data, n_clusters)} :
       \E clusters \in (IF rq.made
                        THEN Answers(rq.key, KMeansAnswers(rq.ft.X_scaled, n_clusters))
                        ELSE {<<>>}) :
       \E call \in {PhaseResult(rq, procedure_cluster_model, n_clusters, clusters)} :
          /\ outcome' = [op |-> "detect_surgical_phases",
                         n_clusters |-> n_clusters, ret |-> call.ret]
          /\ scaler' = call.scaler
          /\ procedure_cluster_model' = call.procedure_cluster_model
          /\ lib' = IF rq.made THEN Put(lib, rq.key, clusters) ELSE lib
          /\ log' = Append(log,
                        [op |-> "detect_surgical_phases",
                         procedures |-> args.procedures,
                         tool_metrics |-> args.tool_metrics,
                         sensor_data |-> args.sensor_data,
                         n_clusters |-> n_clusters, ret |-> call.ret])
    /\ ncalls' = ncalls + 1
    /\ procedures' = args.procedures
    /\ tool_metrics' = args.tool_metrics
    /\ sensor_data' = args.sensor_data
    /\ UNCHANGED <<files, db, outlier_detector>>

\* the metric names perform_power_analysis is called with
MetricChoices == {"efficiency_score", "duration_minutes"}

\* perform_power_analysis as one of the calls made on an analyzer
PowerAnalysisCall(args, metric) ==
    /\ ncalls < MaxCalls
    /\ \E ret \in {perform_power_analysis(args.procedures, metric)} :
          /\ outcome' = [op |-> "perform_power_analysis", metric |-> metric, ret |-> ret]
          /\ log' = Append(log,
                        [op |-> "perform_power_analysis",
                         procedures |-> args.procedures,
                         tool_metrics |-> args.tool_metrics,
                         sensor_data |-> args.sensor_data,
                         metric |-> metric, ret |-> ret])
    /\ ncalls' = ncalls + 1
    /\ procedures' = args.procedures
    /\ tool_metrics' = args.tool_metrics
    /\ sensor_data' = args.sensor_data
    /\ UNCHANGED <<files, db, scaler, procedure_cluster_model, outlier_detector, lib>>

(***************************************************************************)
(* One call on a freshly constructed analyzer, on collections without      *)
(* sensor samples.  No call has been made in the initial state: the        *)
(* caller's collections are empty.                                         *)
(***************************************************************************)
InitSingle ==
    /\ procedures = <<>>
    /\ tool_metrics = <<>>
    /\ sensor_data = <<>>
    /\ Constructed
    /\ db = NoTables
    /\ files = NoFiles

NextSingle ==
    /\ ncalls = 0
    /\ \/ \E args \in CorrFrames : AnalyzeToolPerformanceCorrelation(args)
       \/ \E args \in CorrFrames \cup TieFrames : AnalyzeProcedureTypePatterns(args)
       \/ \E args \in CorrFrames : IdentifyEfficiencyOutliers(args)

SpecSingle == InitSingle /\ [][NextSingle]_vars

(***************************************************************************)
(* Calls of the engines, one after another, on one analyzer.               *)
(***************************************************************************)
Init ==
    /\ procedures = <<>>
    /\ tool_metrics = <<>>
    /\ sensor_data = <<>>
    /\ Constructed
    /\ db = NoTables
    /\ files = NoFiles

Next ==
    \/ \E args \in FitFrames : AnalyzeToolPerformanceCorrelation(args)
    \/ \E args \in FitFrames : AnalyzeProcedureTypePatterns(args)
    \/ \E args \in FitFrames : IdentifyEfficiencyOutliers(args)
    \/ \E args \in FitFrames, n_clusters \in ClusterCounts :
           DetectSurgicalPhases(args, n_clusters)
    \/ \E args \in FitFrames, metric \in MetricChoices : PowerAnalysisCall(args, metric)

Spec == Init /\ [][Next]_vars

(***************************************************************************)
(* Calls of the helper methods and of perform_power_analysis, which        *)
(* neither read nor change the analyzer: outcome keeps the arguments and   *)
(* the result of the last call.                                            *)
(***************************************************************************)
MaxCorrTenths == 10

\* the coefficient k/10
Tenths(k) == [kind |-> "num", num |-> k, den2 |-> 100]

CorrChoices == {Tenths(k) : k \in (-MaxCorrTenths)..MaxCorrTenths} \cup {NaN}

InterpretCorrelation ==
    /\ \E corr \in CorrChoices, k \in 1..NPairs :
          outcome' = [op      |-> "_interpret_correlation",
                      corr    |-> corr,
                      feature |-> PairAt(k).feature,
                      metric  |-> PairAt(k).metric,
                      ret     |-> _interpret_correlation(
                                      corr, PairAt(k).feature, PairAt(k).metric)]
    /\ UNCHANGED <<files, db, procedures, tool_metrics, sensor_data, scaler,
                   procedure_cluster_model, outlier_detector, ncalls, lib, log>>

\* means in tenths at, just below and just above the thresholds, and NaN
\* (the mean of an empty cluster)
NearTenths(thresholds) ==
    {[s |-> t + d, n |-> 10] : t \in thresholds, d \in {-1, 0, 1}} \cup {[s |-> 0, n |-> 0]}

ForceChoices ==
    NearTenths({SetupForceTenths, DissectionForceTenths, ManipulationForceTenths})

CurrentChoices ==
    NearTenths({SetupCurrentTenths, DissectionCurrentTenths, ManipulationCurrentTenths})

\* the statistics of a cluster, with or without its force and current means
StatsChoices ==
    {[c \in dom |-> IF c = "force_sensor" THEN f
                    ELSE IF c = "motor_current" THEN m
                    ELSE [s |-> other, n |-> 1]] :
        f \in ForceChoices, m \in CurrentChoices, other \in {0, 1},
        dom \in {Range(feature_cols), Range(feature_cols) \ {"force_sensor"},
                 Range(feature_cols) \ {"motor_current"}}}

NameSurgicalPhase ==
    /\ \E phase_id \in {0, 1}, phase_stats \in StatsChoices :
          /\ phase_stats["vibration"].s = phase_id
          /\ outcome' = [op          |-> "_name_surgical_phase",
                         phase_id    |-> phase_id,
                         phase_stats |-> phase_stats,
                         ret         |-> _name_surgical_phase(phase_id, phase_stats)]
    /\ UNCHANGED <<files, db, procedures, tool_metrics, sensor_data, scaler,
                   procedure_cluster_model, outlier_detector, ncalls, lib, log>>

\* records with every column at, just below and just above its limit
CauseChoices ==
    {[procedure_id       |-> 1,
      procedure_type     |-> "Hernia Repair",
      duration_minutes   |-> DurationLimit + d,
      efficiency_score   |-> EfficiencyLimit + e,
      blood_loss_ml      |-> BloodLossLimit + b,
      instrument_changes |-> InstrumentChangesLimit + i] :
        d \in {-1, 0, 1}, e \in {-1, 0, 1}, b \in {-1, 0, 1}, i \in {-1, 0, 1}}

IdentifyOutlierCauses ==
    /\ \E procedure \in CauseChoices :
          outcome' = [op        |-> "_identify_outlier_causes",
                      procedure |-> procedure,
                      ret       |-> _identify_outlier_causes(procedure)]
    /\ UNCHANGED <<files, db, procedures, tool_metrics, sensor_data, scaler,
                   procedure_cluster_model, outlier_detector, ncalls, lib, log>>

PerformPowerAnalysis ==
    /\ \E metric \in MetricChoices :
          outcome' = [op     |-> "perform_power_analysis",
                      metric |-> metric,
                      ret    |-> perform_power_analysis(procedures, metric)]
    /\ UNCHANGED <<files, db, procedures, tool_metrics, sensor_data, scaler,
                   procedure_cluster_model, outlier_detector, ncalls, lib, log>>

InitPure ==
    /\ procedures = <<>>
    /\ tool_metrics = <<>>
    /\ sensor_data = <<>>
    /\ Constructed
    /\ db = NoTables
    /\ files = NoFiles

NextPure ==
    \/ InterpretCorrelation
    \/ NameSurgicalPhase
    \/ IdentifyOutlierCauses
    \/ PerformPowerAnalysis

SpecPure == InitPure /\ [][NextPure]_vars

(***************************************************************************)
(* SurgicalDatabase.  The file holds the table procedures: the column      *)
(* declared PRIMARY KEY ("none" when the table has no key) and the rows in *)
(* the order they were inserted.                                           *)
(***************************************************************************)
MaxRows == 3

\* CREATE TABLE IF NOT EXISTS procedures (procedure_id TEXT PRIMARY KEY, ...)
\* makes the empty keyed table in a new file and leaves a table that is
\* there as it is
_init_database(file) ==
    IF file = NoTables
    THEN [procedures |-> [primary_key |-> "procedure_id", rows |-> <<>>]]
    ELSE file

\* DataFrame.to_sql(name, conn, if_exists='append'): the rows are added to
\* the table that is there
to_sql_append(file, df) ==
    [file EXCEPT !.procedures.rows = @ \o df]

\* DataFrame.to_sql('procedures', conn, if_exists='replace', index=False):
\* the table is dropped and made again from the columns of the frame, with
\* no key, and every row of the frame is inserted
to_sql(file, df) ==
    [file EXCEPT !.procedures = [primary_key |-> "none", rows |-> df]]

save_procedures(file, procedures_df) == to_sql(file, procedures_df)

\* WHERE efficiency_score > ?
Selected(file, min_efficiency) ==
    SelectSeq(file.procedures.rows, LAMBDA r : r.efficiency_score > min_efficiency)

\* ORDER BY efficiency_score DESC: the selected rows in an order of
\* non-increasing score; SQL leaves the order of rows of equal score open
query_efficient_procedures(file, min_efficiency) ==
    LET sel == Selected(file, min_efficiency)
        n   == Len(sel)
    IN  {[i \in 1..n |-> sel[order[i]]] :
            order \in {o \in [1..n -> 1..n] :
                          /\ \A i, j \in 1..n : o[i] = o[j] => i = j
                          /\ \A i \in 1..(n - 1) :
                                 sel[o[i]].efficiency_score
                                     >= sel[o[i + 1]].efficiency_score}}

\* the thresholds asked for (80 by default)
MinEfficiencyChoices == {80, 90}

\* rows a procedures frame is made of: scores below, at and above the
\* thresholds, two rows of one score, two rows of one procedure_id
DbRows ==
    << ProcRow(1, Proc("Hernia Repair",   45, 85, 50, 0, 2)),
       ProcRow(2, Proc("Cholecystectomy", 60, 85, 80, 0, 3)),
       ProcRow(1, Proc("Hernia Repair",   50, 80, 60, 1, 2)),
       ProcRow(3, Proc("Appendectomy",    30, 95, 20, 0, 1)),
       ProcRow(2, Proc("Cholecystectomy", 90, 60, 150, 1, 5)) >>

\* the frames of at most MaxRows rows
DbFrames ==
    UNION {[1..n -> Range(DbRows)] : n \in 0..MaxRows}

\* SurgicalDatabase(db_path) on the file as it is
OpenDatabase ==
    /\ db' = _init_database(db)
    /\ outcome' = [op |-> "__init__"]
    /\ UNCHANGED <<files, procedures, tool_metrics, sensor_data, scaler,
                   procedure_cluster_model, outlier_detector, ncalls, lib, log>>

\* save_procedures(procedures_df); procedures is the frame last saved
SaveProcedures ==
    /\ ncalls < MaxCalls
    /\ \E procedures_df \in DbFrames :
          /\ db' = save_procedures(db, procedures_df)
          /\ procedures' = procedures_df
    /\ outcome' = [op |-> "save_procedures", ret |-> [raised |-> FALSE]]
    /\ ncalls' = ncalls + 1
    /\ UNCHANGED <<files, tool_metrics, sensor_data, scaler, procedure_cluster_model,
                   outlier_detector, lib, log>>

QueryEfficientProcedures ==
    /\ \E min_efficiency \in MinEfficiencyChoices :
       \E result \in query_efficient_procedures(db, min_efficiency) :
          outcome' = [op |-> "query_efficient_procedures",
                      min_efficiency |-> min_efficiency,
                      ret |-> [raised |-> FALSE, value |-> result]]
    /\ UNCHANGED <<files, procedures, tool_metrics, sensor_data, scaler,
                   procedure_cluster_model, outlier_detector, ncalls, lib, log, db>>

\* a SurgicalDatabase constructed on a new file, nothing saved yet
InitDb ==
    /\ procedures = <<>>
    /\ tool_metrics = <<>>
    /\ sensor_data = <<>>
    /\ Constructed
    /\ db = _init_database(NoTables)
    /\ files = NoFiles

NextDb ==
    \/ OpenDatabase
    \/ SaveProcedures
    \/ QueryEfficientProcedures

SpecDb == InitDb /\ [][NextDb]_vars

(***************************************************************************)
(* SurgicalDataLoader.  Numbers drawn as floats are kept in tenths.  What  *)
(* the random generator yields during one call is a stream: the draws of   *)
(* the i-th procedure are taken from pools of draws in turn, starting at   *)
(* an offset, and the numbers of tools come from a tape of their own.      *)
(***************************************************************************)
MaxGen == 2

SampleLimit == 50

MaxOf(a, b) == IF a >= b THEN a ELSE b

MinOf(a, b) == IF a <= b THEN a ELSE b

\* the element of a pool that the k-th draw (from 0) yields
At(pool, k) == pool[(k % Len(pool)) + 1]

procedure_types ==
    <<"Laparoscopic Cholecystectomy", "Bariatric Surgery", "Colorectal Surgery",
      "Hernia Repair", "GI Surgery">>

tools ==
    <<"Harmonic Scalpel", "Ligasure", "Robotic Grasper", "Electrosurgical Pencil",
      "Stapler", "Suction/Irrigation">>

complications_list ==
    <<"Minimal bleeding controlled with electrocautery",
      "Some adhesions encountered, carefully dissected",
      "Clear anatomy, straightforward procedure",
      "Challoscopic anatomy, required careful dissection",
      "Dense adhesions present, took additional time",
      "Good hemostasis throughout",
      "Some instrument fogging encountered",
      "Tissue sticking to instrument tip occasionally">>

\* f"{i:04d}": at least four digits
Format04d(i) ==
    IF i < 10 THEN "000" \o ToString(i)
    ELSE IF i < 100 THEN "00" \o ToString(i)
    ELSE IF i < 1000 THEN "0" \o ToString(i)
    ELSE ToString(i)

\* 120 if 'Laparoscopic' in procedure_type else 180
base_duration(procedure_type) ==
    IF procedure_type = "Laparoscopic Cholecystectomy" THEN 120 ELSE 180

\* draws of one procedure: the type (an index of procedure_types), the
\* deviation of normal(base_duration, 30) from its mean, normal(80, 12),
\* randint(1, 25), normal(28, 6), gamma(2, 40), choice([0, 1]),
\* choice(sites), poisson(3)
ProcDraw(t, dev, eff, yrs, bmi, loss, compl, site, changes) ==
    [procedure_type |-> t, duration_dev |-> dev, efficiency_score |-> eff,
     surgeon_experience_yrs |-> yrs, patient_bmi |-> bmi, blood_loss_ml |-> loss,
     complications |-> compl, surgical_site |-> site, instrument_changes |-> changes]

ProcDraws ==
    << ProcDraw(1,  -900,  500,  1, 150,   50, 0, "Abdominal", 0),
       ProcDraw(4, -1330, 1100, 24, 500, 2105, 1, "Pelvic",    3),
       ProcDraw(5, -1335,  800, 10, 280,  800, 0, "Thoracic",  5) >>

\* draws of one tool-usage event: uniform(5, 45), gamma(2, 2), normal(45, 10),
\* poisson(15), normal(7, 1.5), poisson(0.5)
EventDraw(usage, force, temp, act, rating, sticking) ==
    [usage_time_minutes |-> usage, max_force_applied |-> force,
     avg_temperature_c |-> temp, activation_count |-> act,
     efficiency_rating |-> rating, tissue_sticking_incidents |-> sticking]

EventDraws ==
    << EventDraw( 50, 40, 450, 15, 70, 0),
       EventDraw(449,  1, 251,  9, -5, 2) >>

\* draws of one sensor sample: normal(2, 0.8), normal(37, 3), normal(1.5, 0.4),
\* gamma(1, 0.5), normal(12, 2)
SensorDraw(force, temp, current, vibration, pressure) ==
    [force_sensor |-> force, temperature |-> temp, motor_current |-> current,
     vibration |-> vibration, pressure |-> pressure]

SensorDraws ==
    << SensorDraw(20, 370, 15, 5, 120),
       SensorDraw(-3, 401,  2, 1,  95) >>

\* draws of one note: an index of complications_list, randint(1, 6)
NoteDraws == << [surgeon_notes |-> 1, difficulty_rating |-> 1],
                [surgeon_notes |-> 8, difficulty_rating |-> 5] >>

\* randint(3, 8) over the procedures of a call
ToolCountTapes == { <<3, 6, 4, 5>>, <<6, 7, 3>> }

\* procedures.sample(k): the k rows it keeps, in the order it gives them
SampleOrders == {"first rows backwards", "last rows"}

\* where in the pools the draws of a call start
StreamOffsets == {0, 1}

Streams ==
    [at : StreamOffsets, num_tool_uses : ToolCountTapes, sample : SampleOrders]

\* the number of procedures asked for (500 by default is beyond the model)
NumProcedureChoices == (0..MaxGen) \cup {SampleLimit + 1}

procedure_columns ==
    <<"procedure_id", "procedure_type", "duration_minutes", "efficiency_score",
      "surgeon_experience_yrs", "patient_bmi", "blood_loss_ml", "complications",
      "surgical_site", "instrument_changes">>

tool_columns ==
    <<"procedure_id", "tool_type", "usage_time_minutes", "max_force_applied",
      "avg_temperature_c", "activation_count", "efficiency_rating",
      "tissue_sticking_incidents">>

sensor_columns ==
    <<"procedure_id", "timestamp_minutes", "force_sensor", "temperature",
      "motor_current", "vibration", "pressure">>

_generate_procedures_data(num_procedures, stream) ==
    [k \in 1..num_procedures |->
        LET i == k - 1
            d == At(ProcDraws, stream.at + i)
            procedure_type == procedure_types[d.procedure_type]
        IN  [procedure_id           |-> "PROC_" \o Format04d(i),
             procedure_type         |-> procedure_type,
             duration_minutes       |->
                 MaxOf(450, 10 * base_duration(procedure_type) + d.duration_dev),
             efficiency_score       |-> MaxOf(600, MinOf(1000, d.efficiency_score)),
             surgeon_experience_yrs |-> d.surgeon_experience_yrs,
             patient_bmi            |-> MaxOf(180, MinOf(450, d.patient_bmi)),
             blood_loss_ml          |-> MaxOf(100, d.blood_loss_ml),
             complications          |-> d.complications,
             surgical_site          |-> d.surgical_site,
             instrument_changes     |-> d.instrument_changes]]

\* np.random.choice(tools, num_tool_uses, replace=False): that many
\* different tools, or ValueError when more are asked for than there are
ChoiceWithoutReplacement(population, size, k) ==
    IF size > Len(population)
    THEN [raised |-> TRUE, error |-> "ValueError", raised_by |-> "numpy.random.choice"]
    ELSE [raised |-> FALSE, value |-> [j \in 1..size |-> At(population, k + j)]]

\* the rows of one procedure
ToolEvents(procedure, i, tools_used) ==
    [j \in 1..Len(tools_used) |->
        LET e == At(EventDraws, i + j)
        IN  [procedure_id              |-> procedure.procedure_id,
             tool_type                 |-> tools_used[j],
             usage_time_minutes        |-> e.usage_time_minutes,
             max_force_applied         |-> e.max_force_applied,
             avg_temperature_c         |-> e.avg_temperature_c,
             activation_count          |-> e.activation_count,
             efficiency_rating         |-> e.efficiency_rating,
             tissue_sticking_incidents |-> e.tissue_sticking_incidents]]

_generate_tool_metrics_data(procs, stream) ==
    LET num_tool_uses(i) == At(stream.num_tool_uses, stream.at + i)
        tools_used(i) == ChoiceWithoutReplacement(tools, num_tool_uses(i), stream.at + i)
    IN  IF \E k \in 1..Len(procs) : tools_used(k - 1).raised
        THEN tools_used((CHOOSE k \in 1..Len(procs) : tools_used(k - 1).raised) - 1)
        ELSE [raised |-> FALSE,
              value  |-> Flatten([k \in 1..Len(procs) |->
                             ToolEvents(procs[k], k - 1, tools_used(k - 1).value)])]

_generate_observations(procedure) ==
    LET observations ==
            (IF procedure.blood_loss_ml > 2000
             THEN <<"Higher than average blood loss">> ELSE <<>>)
            \o (IF procedure.duration_minutes > 1800
                THEN <<"Longer procedure duration">> ELSE <<>>)
            \o (IF procedure.complications = 1
                THEN <<"Minor complications noted">> ELSE <<>>)
            \o (IF procedure.patient_bmi > 350
                THEN <<"Challenging anatomy due to BMI">> ELSE <<>>)
    IN  IF observations # <<>> THEN observations ELSE <<"Standard procedure">>

_generate_surgical_notes(procs, stream) ==
    [k \in 1..Len(procs) |->
        LET d == At(NoteDraws, stream.at + k - 1)
        IN  [procedure_id      |-> procs[k].procedure_id,
             surgeon_notes     |-> complications_list[d.surgeon_notes],
             nurse_notes       |-> [blood_loss_ml |-> procs[k].blood_loss_ml],
             anesthesia_notes  |-> "Stable hemodynamics throughout case.",
             difficulty_rating |-> d.difficulty_rating,
             key_observations  |-> _generate_observations(procs[k])]]

\* min(50, len(procedures))
SampleSize(procs) == MinOf(SampleLimit, Len(procs))

\* procedures.sample(k)
sample(procs, k, order) ==
    IF order = "last rows"
    THEN [j \in 1..k |-> procs[Len(procs) - k + j]]
    ELSE [j \in 1..k |-> procs[k + 1 - j]]

\* range(0, duration, 2) with duration = int(duration_minutes), ends included
time_points_inclusive(duration_minutes) ==
    [m \in 1..((duration_minutes \div 10) \div 2 + 1) |-> 2 * (m - 1)]

\* range(0, duration, 2) with duration = int(duration_minutes)
time_points(duration_minutes) ==
    [m \in 1..(((duration_minutes \div 10) + 1) \div 2) |-> 2 * (m - 1)]

SensorRows(procedure, i) ==
    LET minutes == time_points(procedure.duration_minutes)
    IN  [m \in 1..Len(minutes) |->
            LET d == At(SensorDraws, i + m)
            IN  [procedure_id      |-> procedure.procedure_id,
                 timestamp_minutes |-> minutes[m],
                 force_sensor      |-> MaxOf(0, d.force_sensor),
                 temperature       |-> d.temperature,
                 motor_current     |-> d.motor_current,
                 vibration         |-> d.vibration,
                 pressure          |-> d.pressure]]

_generate_sensor_data(procs, stream) ==
    LET sample_procedures == sample(procs, SampleSize(procs), stream.sample)
    IN  Flatten([k \in 1..Len(sample_procedures) |->
                    SensorRows(sample_procedures[k], k)])

\* DataFrame(data).to_csv(path, index=False): the header of the columns the
\* frame has (none when there was no row to make it from) and its rows
to_csv(frame, columns) ==
    [exists |-> TRUE,
     header |-> IF Len(frame) = 0 THEN <<>> ELSE columns,
     records |-> frame]

\* pd.read_csv(path): the rows under the header, the floats parsed exactly
\* or to the nearest number the parser finds
read_csv(file) ==
    IF ~file.exists
    THEN {[raised |-> TRUE, error |-> "FileNotFoundError", raised_by |-> "read_csv"]}
    ELSE IF file.header = <<>>
    THEN {[raised |-> TRUE, error |-> "EmptyDataError", raised_by |-> "read_csv"]}
    ELSE {[raised |-> FALSE,
           value  |-> [columns |-> file.header, rows |-> file.records,
                       floats |-> parsed]] : parsed \in {"exact", "nearest"}}

\* json.dump(surgical_notes, f, indent=2)
json_dump(notes) == [exists |-> TRUE, notes |-> notes]

\* json.load(f)
json_load(file) ==
    IF ~file.exists
    THEN [raised |-> TRUE, error |-> "FileNotFoundError", raised_by |-> "open"]
    ELSE [raised |-> FALSE, value |-> file.notes]

\* the call on the files as they are: what it returns or raises, the frames
\* it made, and the files it leaves
generate_sample_data(num_procedures, stream, raw) ==
    LET procs == _generate_procedures_data(num_procedures, stream)
        raw1  == [raw EXCEPT !.procedures = to_csv(procs, procedure_columns)]
        tm    == _generate_tool_metrics_data(procs, stream)
    IN  IF tm.raised
        THEN [ret |-> tm, procedures |-> procs, tool_metrics |-> <<>>,
              sensor_data |-> <<>>, files |-> raw1]
        ELSE LET surgical_notes == _generate_surgical_notes(procs, stream)
                 sensor == _generate_sensor_data(procs, stream)
             IN  [ret |-> [raised |-> FALSE,
                           value  |-> [surgical_notes |-> surgical_notes]],
                  procedures |-> procs,
                  tool_metrics |-> tm.value,
                  sensor_data |-> sensor,
                  files |-> [procedures     |-> to_csv(procs, procedure_columns),
                             tool_metrics   |-> to_csv(tm.value, tool_columns),
                             surgical_notes |-> json_dump(surgical_notes),
                             sensor_data    |-> to_csv(sensor, sensor_columns)]]

\* generate_sample_data(num_procedures); procedures, tool_metrics and
\* sensor_data are the frames the last call made (and returned, with the
\* notes, unless it raised)
GenerateSampleData ==
    /\ \E num_procedures \in NumProcedureChoices, stream \in Streams :
       \E call \in {generate_sample_data(num_procedures, stream, files)} :
          /\ outcome' = [op |-> "generate_sample_data",
                         num_procedures |-> num_procedures, ret |-> call.ret]
          /\ procedures' = call.procedures
          /\ tool_metrics' = call.tool_metrics
          /\ sensor_data' = call.sensor_data
          /\ files' = call.files
    /\ UNCHANGED <<scaler, procedure_cluster_model, outlier_detector, ncalls,
                   lib, log, db>>

LoaderFrame ==
    UNCHANGED <<procedures, tool_metrics, sensor_data, scaler,
                procedure_cluster_model, outlier_detector, ncalls, lib, log, db,
                files>>

LoadProceduresData ==
    /\ \E ret \in read_csv(files.procedures) :
          outcome' = [op |-> "load_procedures_data", ret |-> ret]
    /\ LoaderFrame

LoadToolMetrics ==
    /\ \E ret \in read_csv(files.tool_metrics) :
          outcome' = [op |-> "load_tool_metrics", ret |-> ret]
    /\ LoaderFrame

LoadSurgicalNotes ==
    /\ outcome' = [op |-> "load_surgical_notes", ret |-> json_load(files.surgical_notes)]
    /\ LoaderFrame

LoadSensorData ==
    /\ \E ret \in read_csv(files.sensor_data) :
          outcome' = [op |-> "load_sensor_data", ret |-> ret]
    /\ LoaderFrame

\* a SurgicalDataLoader on a data path without files
InitLoader ==
    /\ procedures = <<>>
    /\ tool_metrics = <<>>
    /\ sensor_data = <<>>
    /\ Constructed
    /\ db = NoTables
    /\ files = NoFiles

NextLoader ==
    \/ GenerateSampleData
    \/ LoadProceduresData
    \/ LoadToolMetrics
    \/ LoadSurgicalNotes
    \/ LoadSensorData

SpecLoader == InitLoader /\ [][NextLoader]_vars

(***************************************************************************)
(* Claims about analyze_tool_performance_correlation.                      *)
(***************************************************************************)
CorrReturned ==
    /\ outcome.op = "analyze_tool_performance_correlation"
    /\ ~outcome.ret.raised

CorrRaised ==
    /\ outcome.op = "analyze_tool_performance_correlation"
    /\ outcome.ret.raised

AbsGe(c, t) == c.kind = "num" /\ 100 * c.num * c.num >= t * t * c.den2

InUnitInterval(c) == c.kind = "num" /\ c.num * c.num <= c.den2

\* C1: every returned entry carries a coefficient in [-1, 1] of absolute
\* value at least 0.1, and a pair of the 4x4 cross-product is in the result
\* if and only if the absolute value of its coefficient exceeds 0.1.
C1_InclusionThreshold ==
    CorrReturned =>
        LET md == merged_data(procedures, tool_metrics)
            d  == outcome.ret.value
        IN  /\ \A key \in DOMAIN d :
                  /\ InUnitInterval(d[key].correlation)
                  /\ AbsGe(d[key].correlation, 1)
                  /\ \E k \in 1..16 : key = Key(PairAt(k).feature, PairAt(k).metric)
            /\ \A m \in Range(metrics), f \in Range(tool_features) :
                  LET r == pearsonr(Column(md, f), Column(md, m))
                  IN  /\ Key(f, m) \in DOMAIN d <=> AbsGt(r, 1)
                      /\ Key(f, m) \in DOMAIN d => d[Key(f, m)].correlation = r

\* C1 witness: a returned mapping that holds a pair with a negative
\* coefficient and leaves out a pair whose coefficient is defined, not zero
\* and at most 0.1 in absolute value.
C1_Witness ==
    /\ CorrReturned
    /\ \E key \in DOMAIN outcome.ret.value :
           Negative(outcome.ret.value[key].correlation)
    /\ LET md == merged_data(procedures, tool_metrics)
       IN  \E m \in Range(metrics), f \in Range(tool_features) :
               LET r == pearsonr(Column(md, f), Column(md, m))
               IN  /\ r.kind = "num" /\ r.num # 0 /\ ~AbsGt(r, 1)
                   /\ Key(f, m) \notin DOMAIN outcome.ret.value

\* the pool keeps clear of the thresholds (see CorrPool)
CorrPoolAvoidsThresholds ==
    LET md == merged_data(procedures, tool_metrics)
    IN  Len(md) >= 2 =>
            \A m \in Range(metrics), f \in Range(tool_features) :
                LET r == pearsonr(Column(md, f), Column(md, m))
                IN  ~AbsEq(r, MinCorrTenths) /\ ~AbsEq(r, ModerateTenths)
                        /\ ~AbsEq(r, StrongTenths)

HasConstantColumn(md, f, m) ==
    IsConstant(Scaled(Column(md, f))) \/ IsConstant(Scaled(Column(md, m)))

\* C10 (as claimed): with a constant feature or outcome column the call does
\* not raise and every affected pair is in the returned mapping with the
\* undefined (NaN) coefficient.
C10_ConstantColumnSurfaced ==
    LET md == merged_data(procedures, tool_metrics)
    IN  (outcome.op = "analyze_tool_performance_correlation" /\ Len(md) >= 2) =>
            \A m \in Range(metrics), f \in Range(tool_features) :
                HasConstantColumn(md, f, m) =>
                    /\ ~outcome.ret.raised
                    /\ Key(f, m) \in DOMAIN outcome.ret.value
                    /\ outcome.ret.value[Key(f, m)].correlation = NaN

(***************************************************************************)
(* Claims about identify_efficiency_outliers and _identify_outlier_causes. *)
(***************************************************************************)
OutliersReturned ==
    /\ outcome.op = "identify_efficiency_outliers"
    /\ ~outcome.ret.raised

\* the procedures that have at least one tool-usage row
JoinedIds ==
    {procedures[i].procedure_id : i \in 1..Len(procedures)}
        \cap {tool_metrics[j].procedure_id : j \in 1..Len(tool_metrics)}

\* C2: when identify_efficiency_outliers returns, outlier_rate is
\* total_outliers divided by the number of joined records, total_outliers is
\* the number of joined records the detector flagged, and
\* 0 <= total_outliers <= joined count.
C2_OutlierRate ==
    OutliersReturned =>
        LET v == outcome.ret.value
            n == Cardinality(JoinedIds)
        IN  /\ n > 0
            /\ v.outlier_rate.n > 0
            /\ v.outlier_rate.s * n = v.total_outliers * v.outlier_rate.n
            /\ 0 <= v.total_outliers /\ v.total_outliers <= n
            /\ DOMAIN v.outlier_procedures \subseteq JoinedIds
            /\ Cardinality(DOMAIN v.outlier_procedures) = v.total_outliers
            /\ \E key \in DOMAIN lib :
                   Cardinality({i \in DOMAIN lib[key] : lib[key][i] = -1})
                       = v.total_outliers

\* C2 witness: a call that returned with a flagged record, on procedures of
\* which one has no tool-usage row.
C2_Witness ==
    /\ OutliersReturned
    /\ outcome.ret.value.total_outliers >= 1
    /\ Cardinality(JoinedIds) < Len(procedures)

CausesCalled == outcome.op = "_identify_outlier_causes"

\* the rules of the claim that fire for a record
FiredRules(p) ==
    {r \in {"Extended procedure duration", "Low efficiency score",
            "High blood loss", "Frequent instrument changes"} :
        \/ r = "Extended procedure duration" /\ p.duration_minutes > 200
        \/ r = "Low efficiency score" /\ p.efficiency_score < 60
        \/ r = "High blood loss" /\ p.blood_loss_ml > 300
        \/ r = "Frequent instrument changes" /\ p.instrument_changes > 6}

CausesExact ==
    CausesCalled =>
        LET fired == FiredRules(outcome.procedure)
            ret   == outcome.ret
        IN  /\ Len(ret) >= 1
            /\ Len(ret) = (IF fired = {} THEN 1 ELSE Cardinality(fired))
            /\ fired # {} => Range(ret) = fired
            /\ (ret = <<"Complex case factors">>) <=> (fired = {})

CausesMonotone ==
    (/\ CausesCalled
     /\ outcome'.op = "_identify_outlier_causes"
     /\ FiredRules(outcome.procedure) \subseteq FiredRules(outcome'.procedure))
        => Len(outcome.ret) <= Len(outcome'.ret)

\* C3: _identify_outlier_causes returns exactly the names of the rules that
\* fire among duration > 200, efficiency < 60, blood loss > 300 and
\* instrument changes > 6 (all strict), and the single fallback cause exactly
\* when none fires; the list is never empty, its length is
\* max(1, number of fired rules), and a record meeting a superset of another
\* record's rules never has a shorter list.
C3_CauseAttribution == []CausesExact /\ [][CausesMonotone]_vars

\* C3 witness: a record whose duration is exactly 200 and whose efficiency is
\* exactly 60, for which the two other rules fire.
C3_Witness ==
    /\ CausesCalled
    /\ outcome.procedure.duration_minutes = 200
    /\ outcome.procedure.efficiency_score = 60
    /\ outcome.ret = <<"High blood loss", "Frequent instrument changes">>

(***************************************************************************)
(* Claims about _name_surgical_phase.                                      *)
(***************************************************************************)
PhaseNamed == outcome.op = "_name_surgical_phase"

SameNumber(x, y) ==
    \/ x.n = 0 /\ y.n = 0
    \/ x.n > 0 /\ y.n > 0 /\ x.s * y.n = y.s * x.n

\* the force and the current the method reads in phase_stats
ForceOf(stats) == Get(stats, "force_sensor", [s |-> 0, n |-> 1])

CurrentOf(stats) == Get(stats, "motor_current", [s |-> 0, n |-> 1])

PhaseNameTotal ==
    PhaseNamed =>
        outcome.ret \in {"Setup/Preparation", "Active Dissection",
                         "Precise Manipulation", "Closure/Finishing"}

PhaseNameOfPairAlone ==
    (/\ PhaseNamed
     /\ outcome'.op = "_name_surgical_phase"
     /\ SameNumber(ForceOf(outcome.phase_stats), ForceOf(outcome'.phase_stats))
     /\ SameNumber(CurrentOf(outcome.phase_stats), CurrentOf(outcome'.phase_stats)))
        => outcome'.ret = outcome.ret

\* C4: for every (mean force, mean motor current) pair _name_surgical_phase
\* returns exactly one of the four labels, and two clusters with identical
\* pairs get identical labels whatever their phase id or other channel means.
C4_PhaseNaming == []PhaseNameTotal /\ [][PhaseNameOfPairAlone]_vars

\* C4 witness: the cluster with phase id 1 and another vibration mean, of
\* force just below 1.0 and current just below 1.0, is named as the cluster
\* with phase id 0 is.
C4_Witness ==
    /\ PhaseNamed
    /\ outcome.phase_id = 1
    /\ outcome.phase_stats["vibration"].s = 1
    /\ "force_sensor" \in DOMAIN outcome.phase_stats
    /\ "motor_current" \in DOMAIN outcome.phase_stats
    /\ outcome.phase_stats["force_sensor"] = [s |-> 9, n |-> 10]
    /\ outcome.phase_stats["motor_current"] = [s |-> 9, n |-> 10]
    /\ outcome.ret = "Setup/Preparation"

(***************************************************************************)
(* Claims about the two fitting engines called again and again on one      *)
(* analyzer.                                                               *)
(***************************************************************************)
EngineOps == {"identify_efficiency_outliers", "detect_surgical_phases"}

EngineCalls == {i \in 1..Len(log) : log[i].op \in EngineOps}

\* two logged calls of the same engine on the same input population
SameInput(a, b) ==
    /\ a.op = b.op
    /\ IF a.op = "detect_surgical_phases"
       THEN a.sensor_data = b.sensor_data /\ a.n_clusters = b.n_clusters
       ELSE a.procedures = b.procedures /\ a.tool_metrics = b.tool_metrics

\* C5: two calls of identify_efficiency_outliers, or of
\* detect_surgical_phases, on the same input population yield identical
\* outputs, however many calls came before; every estimator is built with
\* the seed 42 and every request to the library carries that seed.
C5_Determinism ==
    /\ \A i \in EngineCalls, j \in EngineCalls :
          SameInput(log[i], log[j]) => log[i].ret = log[j].ret
    /\ procedure_cluster_model.kind = "KMeans" =>
          procedure_cluster_model.random_state = 42
    /\ outlier_detector.kind = "IsolationForest" =>
          outlier_detector.random_state = 42
    /\ \A key \in DOMAIN lib : key.random_state = 42

\* C5 witness: the same engine has been called twice on the same population
\* of two cases, and both calls returned.
C5_Witness ==
    \E i \in EngineCalls, j \in EngineCalls :
        /\ i < j
        /\ SameInput(log[i], log[j])
        /\ Len(log[i].procedures) >= 2
        /\ ~log[i].ret.raised
        /\ ~log[j].ret.raised

\* the request the logged call e makes of the library on a freshly
\* constructed analyzer
FreshRequest(e) ==
    IF e.op = "identify_efficiency_outliers"
    THEN OutlierRequest(Unfitted, e.procedures, e.tool_metrics)
    ELSE PhaseRequest(Unfitted, e.sensor_data, e.n_clusters)

\* the call e on a freshly constructed analyzer, the library answering
\* answer to the request rq
FreshResult(e, rq, answer) ==
    IF e.op = "identify_efficiency_outliers"
    THEN OutlierResult(rq, None, e.procedures, answer)
    ELSE PhaseResult(rq, None, e.n_clusters, answer)

\* the estimator the engine of the call e stores, of the two stored
StoredEstimator(e, cluster_model, detector) ==
    IF e.op = "identify_efficiency_outliers" THEN detector ELSE cluster_model

\* the estimator the call e, done as in fresh, leaves on a fresh analyzer
EstimatorOf(e, fresh) ==
    IF e.op = "identify_efficiency_outliers" THEN fresh.outlier_detector
    ELSE fresh.procedure_cluster_model

\* the scaler took the input of the call e
ScalerTookInput(e) == FreshRequest(e).made

\* the call e made the request a freshly constructed analyzer makes, which
\* the library (its answers being answers) has answered, drew from the answer
\* the result the fresh analyzer draws, and left the scaler sc as the fresh
\* analyzer leaves it: fitted on the input of e alone, unfitted when that
\* input was refused
ResultAsOnFresh(e, answers, sc) ==
    \A rq \in {FreshRequest(e)} :
        /\ rq.made => rq.key \in DOMAIN answers
        /\ \A fresh \in {FreshResult(e, rq, IF rq.made THEN answers[rq.key]
                                            ELSE <<>>)} :
               /\ e.ret = fresh.ret
               /\ sc = fresh.scaler

\* stored is the estimator the call e leaves on a fresh analyzer
EstimatorAsOnFresh(e, answers, stored) ==
    \A rq \in {FreshRequest(e)} :
        /\ rq.made => rq.key \in DOMAIN answers
        /\ \A fresh \in {FreshResult(e, rq, IF rq.made THEN answers[rq.key]
                                            ELSE <<>>)} :
               stored = EstimatorOf(e, fresh)

\* the logged call e left the analyzer as the same call leaves a freshly
\* constructed one: the result, the scaler and the stored estimator
AsOnFreshAnalyzer(e) ==
    /\ ResultAsOnFresh(e, lib, scaler)
    /\ EstimatorAsOnFresh(e, lib,
           StoredEstimator(e, procedure_cluster_model, outlier_detector))

\* the step is a call of one of the two fitting engines
EngineCallStep ==
    /\ Len(log') = Len(log) + 1
    /\ log'[Len(log')].op \in EngineOps

\* C6 as stated: in any sequence of engine calls on one analyzer every call
\* refits the scaler from its own input, dropping the previous fit, and
\* replaces the stored estimator, so that it leaves the result, the scaler
\* and the estimator that the same call leaves on a freshly constructed
\* analyzer (stated of a call of one of the two fitting engines in the state
\* it leaves, hence of every such call of every sequence).
C6_RefitEveryCall ==
    (Len(log) > 0 /\ log[Len(log)].op \in EngineOps) =>
        AsOnFreshAnalyzer(log[Len(log)])

\* C6, amended: every call of a fitting engine refits the scaler from its
\* own input, dropping the previous fit, and its result is the result of the
\* same call on a freshly constructed analyzer; it replaces the stored
\* estimator when the scaler takes its input, and leaves the stored
\* estimators as they were when the scaler refuses it (no rows), the call
\* raising before it builds one.
C6_RefitReplacesUnlessRefused ==
    [][EngineCallStep =>
          \A e \in {log'[Len(log')]} :
              /\ ResultAsOnFresh(e, lib', scaler')
              /\ IF ScalerTookInput(e)
                 THEN EstimatorAsOnFresh(e, lib',
                          StoredEstimator(e, procedure_cluster_model',
                                          outlier_detector'))
                 ELSE UNCHANGED <<procedure_cluster_model, outlier_detector>>]_vars

\* C6 witness: an engine call that fitted the scaler and stored its
\* estimator, then a call of the same engine on input the scaler refused.
C6_Witness ==
    \E i \in EngineCalls, r \in EngineCalls :
        /\ i < r
        /\ ~log[i].ret.raised
        /\ log[r].op = log[i].op
        /\ ~ScalerTookInput(log[r])
        /\ scaler = Unfitted
        /\ StoredEstimator(log[i], procedure_cluster_model, outlier_detector) # None

(***************************************************************************)
(* Claims about analyze_procedure_type_patterns.                           *)
(***************************************************************************)
PatternsReturned ==
    /\ outcome.op = "analyze_procedure_type_patterns"
    /\ ~outcome.ret.raised

TypesPresent == {procedures[i].procedure_type : i \in 1..Len(procedures)}

\* the rows of procedures that are of type t
OfType(t) == {i \in 1..Len(procedures) : procedures[i].procedure_type = t}

\* the sum of column c over the rows S of procedures
RECURSIVE SumOver(_, _)
SumOver(S, c) ==
    IF S = {} THEN 0
    ELSE LET i == CHOOSE k \in S : TRUE
         IN  procedures[i][c] + SumOver(S \ {i}, c)

\* the mean m is the arithmetic mean of column c over the rows S
IsMeanOver(m, S, c) ==
    /\ m.n > 0
    /\ m.s * Cardinality(S) = SumOver(S, c) * m.n

\* the sum of n_procedures over the types T of the mapping d
RECURSIVE TotalProcedures(_, _)
TotalProcedures(d, T) ==
    IF T = {} THEN 0
    ELSE LET t == CHOOSE u \in T : TRUE
         IN  d[t].n_procedures + TotalProcedures(d, T \ {t})

\* C7: the result has exactly one entry per procedure type present in the
\* input; avg_duration, avg_efficiency and complication_rate of a type are
\* the arithmetic means over exactly the procedures of that type,
\* n_procedures is the size of that subset, and the n_procedures add up to
\* the number of procedures.
C7_TypePatterns ==
    PatternsReturned =>
        LET d == outcome.ret.value
        IN  /\ DOMAIN d = TypesPresent
            /\ \A t \in TypesPresent :
                  /\ IsMeanOver(d[t].avg_duration, OfType(t), "duration_minutes")
                  /\ IsMeanOver(d[t].avg_efficiency, OfType(t), "efficiency_score")
                  /\ IsMeanOver(d[t].complication_rate, OfType(t), "complications")
                  /\ d[t].n_procedures = Cardinality(OfType(t))
            /\ TotalProcedures(d, DOMAIN d) = Len(procedures)

\* C7 witness: a summary of procedures of two types at least, one of them
\* with several procedures that differ in duration.
C7_Witness ==
    /\ PatternsReturned
    /\ Cardinality(TypesPresent) >= 2
    /\ \E t \in TypesPresent : \E i \in OfType(t), j \in OfType(t) :
          procedures[i].duration_minutes # procedures[j].duration_minutes

\* the tool-usage events of the procedures of type t
EventsOfType(t) ==
    {j \in 1..Len(tool_metrics) :
        \E i \in OfType(t) : procedures[i].procedure_id = tool_metrics[j].procedure_id}

\* the events of the procedures of type t made with the tool type tool
EventsWith(t, tool) == {j \in EventsOfType(t) : tool_metrics[j].tool_type = tool}

ToolTypesOfType(t) == {tool_metrics[j].tool_type : j \in EventsOfType(t)}

\* What the code decides of common_tools: at most three tool types, each
\* with the number of its events, none less frequent than a tool type left
\* out.  (The claim on top of this that equally frequent tool types are
\* kept in first-encountered order is about the order pandas gives to equal
\* counts, which the model leaves open.)
CommonToolsMostFrequent ==
    PatternsReturned =>
        \A t \in DOMAIN outcome.ret.value :
            LET kept == outcome.ret.value[t].common_tools
                used == ToolTypesOfType(t)
            IN  /\ DOMAIN kept \subseteq used
                /\ Cardinality(DOMAIN kept) = MinOf(3, Cardinality(used))
                /\ \A a \in DOMAIN kept :
                      kept[a] = Cardinality(EventsWith(t, a))
                /\ \A a \in DOMAIN kept, b \in used \ DOMAIN kept :
                      Cardinality(EventsWith(t, a)) >= Cardinality(EventsWith(t, b))

\* the first event of the procedures of type t made with the tool type tool
FirstWith(t, tool) ==
    CHOOSE j \in EventsWith(t, tool) : \A k \in EventsWith(t, tool) : j <= k

\* a tie at the third place is settled by the order of first appearance
TieByFirstEncounter(t) ==
    LET kept == outcome.ret.value[t].common_tools
    IN  \A a \in DOMAIN kept, b \in ToolTypesOfType(t) \ DOMAIN kept :
            Cardinality(EventsWith(t, a)) = Cardinality(EventsWith(t, b)) =>
                FirstWith(t, a) < FirstWith(t, b)

\* a returned summary in which a tie at the third place is settled by
\* first appearance, and one in which it is not
TieSettledByFirstEncounter ==
    /\ PatternsReturned
    /\ \E t \in DOMAIN outcome.ret.value :
           /\ Cardinality(ToolTypesOfType(t)) > 3
           /\ TieByFirstEncounter(t)

TieSettledOtherwise ==
    /\ PatternsReturned
    /\ \E t \in DOMAIN outcome.ret.value : ~TieByFirstEncounter(t)

(***************************************************************************)
(* Claims about perform_power_analysis and _interpret_correlation.         *)
(***************************************************************************)
\* C8 (as claimed): the result has the keys effect_size_0.2, effect_size_0.5
\* and effect_size_0.8, required_sample_size is 16 / effect_size^2 truncated
\* to an integer, which is 400 for the effect size 0.2 and 25 for 0.8.
C8_RequiredSampleSize ==
    outcome.op = "perform_power_analysis" =>
        LET d == outcome.ret.value
        IN  /\ ~outcome.ret.raised
            /\ DOMAIN d = {"effect_size_0.2", "effect_size_0.5", "effect_size_0.8"}
            /\ \A k \in 1..Len(effect_sizes) :
                  LET e == effect_sizes[k]
                  IN  d["effect_size_" \o e.text].required_sample_size
                          = (16 * e.den * e.den) \div (e.num * e.num)
            /\ d["effect_size_0.2"].required_sample_size = 400
            /\ d["effect_size_0.8"].required_sample_size = 25

\* the strength label the claim gives a coefficient
ClaimedStrength(c) ==
    IF AbsLt(c, ModerateTenths) THEN "weak"
    ELSE IF AbsGt(c, StrongTenths) THEN "strong"
    ELSE "moderate"

\* the direction labels the sign of a coefficient allows
ClaimedDirections(c) ==
    IF Positive(c) THEN {"positive"}
    ELSE IF Negative(c) THEN {"negative"}
    ELSE {"positive", "negative"}

\* the sentence for a pair, written with the given labels
Sentence(strength, direction, feature, metric) ==
    LET table == interpretations(strength, direction)
    IN  IF Key(feature, metric) \in DOMAIN table THEN table[Key(feature, metric)]
        ELSE strength \o " " \o direction \o " correlation"

\* C9 (as claimed): the sentence returned for a coefficient c carries the
\* strength weak for |c| < 0.3, moderate for 0.3 <= |c| <= 0.5 (both ends
\* included) and strong for |c| > 0.5, and the direction given by the sign
\* of c.
C9_StrengthBuckets ==
    (outcome.op = "_interpret_correlation" /\ outcome.corr.kind = "num") =>
        \E direction \in ClaimedDirections(outcome.corr) :
            outcome.ret = Sentence(ClaimedStrength(outcome.corr), direction,
                                   outcome.feature, outcome.metric)

(***************************************************************************)
(* Claims about populations an engine cannot work on.                      *)
(***************************************************************************)
\* C11 (as claimed): with an empty joined population
\* identify_efficiency_outliers ends in an error raised by a guard of its
\* own, before the scaler or the detector is fitted, and no rate is
\* computed.
C11_EmptyPopulationGuard ==
    (outcome.op = "identify_efficiency_outliers" /\ JoinedIds = {}) =>
        /\ outcome.ret.raised
        /\ outcome.ret.raised_by = "identify_efficiency_outliers"
        /\ scaler = Unfitted
        /\ outlier_detector = None
        /\ lib = EmptyDict

\* the distinct (procedure, time bucket) feature points of a sensor table
DistinctPoints(sensor) ==
    {[j \in 1..Len(row) |-> Reduced(row[j])] : row \in Range(PhaseX(phase_features(sensor)))}

\* C12 (as claimed): with fewer distinct feature points than n_clusters
\* detect_surgical_phases fails with an insufficient-data condition of its
\* own, before the clustering routine is called.
C12_InsufficientDataGuard ==
    \A i \in 1..Len(log) :
        (/\ log[i].op = "detect_surgical_phases"
         /\ Cardinality(DistinctPoints(log[i].sensor_data)) < log[i].n_clusters) =>
            /\ log[i].ret.raised
            /\ log[i].ret.raised_by = "detect_surgical_phases"
            /\ \A key \in DOMAIN lib :
                  key.estimator = "KMeans" =>
                      Cardinality(Range(key.X)) >= key.parameter

\* what the code does in the place of C12: a call with fewer distinct points
\* than clusters that returned a result, and one the clustering routine
\* itself refused
ReturnedOnFewPoints ==
    \E i \in 1..Len(log) :
        /\ log[i].op = "detect_surgical_phases"
        /\ Cardinality(DistinctPoints(log[i].sensor_data)) < log[i].n_clusters
        /\ ~log[i].ret.raised

RefusedByKMeans ==
    \E i \in 1..Len(log) :
        /\ log[i].op = "detect_surgical_phases"
        /\ log[i].ret.raised
        /\ log[i].ret.raised_by = "KMeans"

(***************************************************************************)
(* Claims about a call that fails in a sequence of calls.                  *)
(***************************************************************************)
\* a step that is a call ending in an error
FailingCall == ncalls' = ncalls + 1 /\ outcome'.ret.raised

\* an answer the detector may give: no row flagged
NoneFlagged(X) == [i \in 1..Len(X) |-> 1]

\* an answer the clustering may give: equal rows alike, the labels taken in
\* turn
LabelsInTurn(X, n_clusters) ==
    IF Len(X) < n_clusters
    THEN [raised |-> TRUE, error |-> "ValueError", raised_by |-> "KMeans"]
    ELSE [raised |-> FALSE,
          labels |-> [i \in 1..Len(X) |-> (FirstLike(X, i) - 1) % n_clusters]]

\* the answer of the library to a request: the one it gave before or, for a
\* request not made so far, the given admissible one
AnswerAfter(key, admissible) ==
    IF key \in DOMAIN lib' THEN lib'[key] ELSE admissible

\* a call of identify_efficiency_outliers on the dataset pick gives the same
\* after the step as it would have given in its place: it sends the same
\* request (which only a changed scaler could alter) and draws the same
\* result from the answer (which only a changed detector could alter)
OutliersUnaffected(pick) ==
    \A procs \in {ProcTable(FitPool, pick)} :
    \A before \in {OutlierRequest(scaler, procs, ToolTable(FitPool, pick))} :
        /\ \/ scaler' = scaler
           \/ OutlierRequest(scaler', procs, ToolTable(FitPool, pick)) = before
        /\ \/ outlier_detector' = outlier_detector
           \/ \A a \in {IF before.made
                         THEN AnswerAfter(before.key, NoneFlagged(before.ft.X_scaled))
                         ELSE <<>>} :
                  OutlierResult(before, outlier_detector', procs, a).ret
                      = OutlierResult(before, outlier_detector, procs, a).ret

\* the same of detect_surgical_phases
PhasesUnaffected(pick, n_clusters) ==
    \A before \in {PhaseRequest(scaler, SensorTable(FitPool, pick), n_clusters)} :
        /\ \/ scaler' = scaler
           \/ PhaseRequest(scaler', SensorTable(FitPool, pick), n_clusters) = before
        /\ \/ procedure_cluster_model' = procedure_cluster_model
           \/ \A a \in {IF before.made
                         THEN AnswerAfter(before.key,
                                          LabelsInTurn(before.ft.X_scaled, n_clusters))
                         ELSE <<>>} :
                  PhaseResult(before, procedure_cluster_model', n_clusters, a).ret
                      = PhaseResult(before, procedure_cluster_model, n_clusters, a).ret

\* a dataset both fitting engines can return a result on: every case of the
\* pool once
ValidPick == [i \in 1..Len(FitPool) |-> i]

\* the results returned so far are what they were
ResultsKept == \A i \in 1..Len(log) : log'[i] = log[i]

\* C13: when a call of a sequence of calls on one analyzer fails, every
\* result returned before is unchanged, and a later call returns what it
\* would have returned had the failing call not happened: the failing call
\* leaves the analyzer as it was or in a state from which a call of either
\* fitting engine (the only ones that read the analyzer) on a dataset both
\* can work on sends the library the same request and draws the same result.
C13_FailureIsLocal ==
    [][FailingCall =>
          /\ ResultsKept
          /\ \/ UNCHANGED <<scaler, procedure_cluster_model, outlier_detector>>
             \/ /\ OutliersUnaffected(ValidPick)
                /\ \A n_clusters \in ClusterCounts :
                      PhasesUnaffected(ValidPick, n_clusters)]_vars

\* C13 witness: a call has failed on an analyzer that had returned the
\* result of a fitting engine before.
C13_Witness ==
    /\ Len(log) >= 2
    /\ log[Len(log)].ret.raised
    /\ \E i \in EngineCalls : i < Len(log) /\ ~log[i].ret.raised

(***************************************************************************)
(* C14: the caller's collections across a call.                            *)
(***************************************************************************)
AddedColumns == {"phase", "is_outlier"}

HasAddedColumn(frame) ==
    \E i \in 1..Len(frame) : DOMAIN frame[i] \cap AddedColumns # {}

\* C14: no call of any of the five engines changes the collections it was
\* given: right after a call, procedures, tool_metrics and sensor_data are
\* the frames the call was made on, none of them has a column phase or
\* is_outlier, and the column phase is on the rows of the returned copy.
C14_InputsUnchanged ==
    Len(log) > 0 =>
        \A e \in {log[Len(log)]} :
            /\ procedures = e.procedures
            /\ tool_metrics = e.tool_metrics
            /\ sensor_data = e.sensor_data
            /\ ~HasAddedColumn(procedures)
            /\ ~HasAddedColumn(tool_metrics)
            /\ ~HasAddedColumn(sensor_data)
            /\ (e.op = "detect_surgical_phases" /\ ~e.ret.raised) =>
                   \A i \in 1..Len(e.ret.value.phase_assignments) :
                       "phase" \in DOMAIN e.ret.value.phase_assignments[i]

\* C14 witness: identify_efficiency_outliers has just returned with a
\* record flagged, after detect_surgical_phases returned its labelled copy.
C14_Witness ==
    /\ Len(log) >= 2
    /\ log[Len(log)].op = "identify_efficiency_outliers"
    /\ ~log[Len(log)].ret.raised
    /\ log[Len(log)].ret.value.total_outliers >= 1
    /\ \E i \in 1..(Len(log) - 1) :
           /\ log[i].op = "detect_surgical_phases"
           /\ ~log[i].ret.raised

(***************************************************************************)
(* The Python types of what the engines return, and what                   *)
(* save_analysis_results makes of them.  A type is a leaf, a dict with the *)
(* types of its keys and of its values, or a list with the types of its    *)
(* items.                                                                  *)
(***************************************************************************)
Leaf(t) == [type |-> t]

DictOf(keys, values) == [type |-> "dict", keys |-> keys, values |-> values]

ListOf(items) == [type |-> "list", items |-> items]

\* the type of the keys of a dict built with keys of type t
KeysOf(d, t) == IF DOMAIN d = {} THEN {} ELSE {t}

\* correlations: f-string keys, each entry the two numbers of pearsonr and
\* the interpretation string
correlation_type(value) ==
    DictOf(KeysOf(value, "str"),
           {DictOf({"str"}, {Leaf("numpy.float64"), Leaf("str")}) :
                k \in DOMAIN value})

\* outliers: outlier_analysis keyed by procedure_id (the identifiers are
\* strings, data_loader.py:64), each entry the fields of the row and the list
\* of causes; len() and a quotient of two len().  The row iterrows() hands
\* out is an object Series, the frame holding strings beside its numbers, so
\* the numbers read from it are Python ints and floats.
outliers_type(value) ==
    DictOf({"str"},
           {DictOf(KeysOf(value.outlier_procedures, "str"),
                   {DictOf({"str"},
                           {Leaf("str"), Leaf("int"), Leaf("float"),
                            ListOf({Leaf("str")})}) :
                        k \in DOMAIN value.outlier_procedures}),
            Leaf("int"), Leaf("float")})

\* Series.mean(): a numpy.float64, and the Python float nan for a series
\* without values
mean_type(n_values) ==
    IF n_values = 0 THEN Leaf("float") ELSE Leaf("numpy.float64")

\* phases: phase_features itself, phase_summary keyed by the numbers of
\* range(n_clusters), each entry the name, the three means (of no values
\* for a phase without rows) and the count of nunique(), and the score
phases_type(value) ==
    DictOf({"str"},
           {Leaf("DataFrame"),
            DictOf(KeysOf(value.phase_summary, "int"),
                   {DictOf({"str"},
                           {Leaf("str"),
                            mean_type(value.phase_summary[k].n_procedures),
                            Leaf("int")}) :
                        k \in DOMAIN value.phase_summary}),
            Leaf("numpy.float64")})

\* patterns: keyed by procedure type, each entry the means over the
\* procedures of the type (there is one at least), the mean over its tool
\* rows (there may be none), the count and the value_counts dict of tool
\* types
patterns_type(value) ==
    DictOf(KeysOf(value, "str"),
           {DictOf({"str"},
                   {mean_type(value[k].n_procedures),
                    mean_type(value[k].avg_tool_usage_time.n), Leaf("int"),
                    DictOf(KeysOf(value[k].common_tools, "str"),
                           {Leaf("int") : t \in DOMAIN value[k].common_tools})}) :
                k \in DOMAIN value})

\* power analysis: f-string keys, each entry a float, an int and a string
power_type(value) ==
    DictOf(KeysOf(value, "str"),
           {DictOf({"str"}, {Leaf("float"), Leaf("int"), Leaf("str")}) :
                k \in DOMAIN value})

ReturnType(op, value) ==
    CASE op = "analyze_tool_performance_correlation" -> correlation_type(value)
      [] op = "identify_efficiency_outliers"         -> outliers_type(value)
      [] op = "detect_surgical_phases"               -> phases_type(value)
      [] op = "analyze_procedure_type_patterns"      -> patterns_type(value)
      [] op = "perform_power_analysis"               -> power_type(value)

\* A numpy array: its dtype ("object" for an array of Python objects), the
\* types of the elements it holds (none when a dimension is 0) and its shape
\* (<<>> for a 0-d array, <<2, 4>> for a table of 2 rows and 4 columns).
ArrayOf(dtype, elements, shape) ==
    [type |-> "numpy.ndarray", dtype |-> dtype, elements |-> elements,
     shape |-> shape]

\* A numpy datetime64 or timedelta64 scalar: its unit ("generic" when it has
\* none) and whether its value is NaT, within what the datetime module can
\* hold ("in range") or beyond it ("out of range").
TimeOf(t, unit, value) == [type |-> t, unit |-> unit, value |-> value]

\* a structured numpy.void scalar with fields of the given types
RecordOf(fields) == [type |-> "numpy.void", fields |-> fields]

TupleOf(items) == [type |-> "tuple", items |-> items]

\* the field name of a type, or default when the type does not state it
Field(obj, name, default) == IF name \in DOMAIN obj THEN obj[name] ELSE default

\* the types isinstance(obj, np.integer) holds of: the signed and unsigned
\* integers of every width, under their names by width and by C type, and
\* timedelta64, which numpy derives from signedinteger
NumpyIntegers ==
    {"numpy.int8", "numpy.int16", "numpy.int32", "numpy.int64",
     "numpy.uint8", "numpy.uint16", "numpy.uint32", "numpy.uint64",
     "numpy.intc", "numpy.uintc", "numpy.longlong", "numpy.ulonglong",
     "numpy.timedelta64"}

\* the types isinstance(obj, np.floating) holds of
NumpyFloatings ==
    {"numpy.float16", "numpy.float32", "numpy.float64",
     "numpy.longdouble", "numpy.float96", "numpy.float128"}

\* obj.item() of a numpy scalar, which is also what tolist() makes of an
\* element of that type: the Python object nearest to it.  A long double has
\* none and stays as it is.  A timedelta64 is None when NaT, an int when its
\* unit is finer than microseconds, generic or a number of months or years,
\* or when its value is beyond the datetime module, and a timedelta
\* otherwise.  A datetime64 is None when NaT or of generic unit, an int when
\* its unit is finer than microseconds or its value is beyond the datetime
\* module, a date when its unit is days or coarser and a datetime otherwise.
RECURSIVE Item(_)
Item(obj) ==
    CASE obj.type = "numpy.timedelta64" ->
             IF Field(obj, "value", "in range") = "NaT" THEN Leaf("NoneType")
             ELSE IF \/ Field(obj, "unit", "generic")
                           \in {"Y", "M", "ns", "ps", "fs", "as", "generic"}
                     \/ Field(obj, "value", "in range") = "out of range"
                  THEN Leaf("int")
                  ELSE Leaf("datetime.timedelta")
      [] obj.type = "numpy.datetime64" ->
             IF \/ Field(obj, "value", "in range") = "NaT"
                \/ Field(obj, "unit", "generic") = "generic"
             THEN Leaf("NoneType")
             ELSE IF \/ obj.unit \in {"ns", "ps", "fs", "as"}
                     \/ Field(obj, "value", "in range") = "out of range"
                  THEN Leaf("int")
                  ELSE IF obj.unit \in {"Y", "M", "W", "D"}
                       THEN Leaf("datetime.date")
                       ELSE Leaf("datetime.datetime")
      [] obj.type \in NumpyIntegers -> Leaf("int")
      [] obj.type \in {"numpy.float16", "numpy.float32", "numpy.float64"} ->
             Leaf("float")
      [] obj.type \in {"numpy.complex64", "numpy.complex128"} -> Leaf("complex")
      [] obj.type = "numpy.bool_"  -> Leaf("bool")
      [] obj.type = "numpy.str_"   -> Leaf("str")
      [] obj.type = "numpy.bytes_" -> Leaf("bytes")
      [] obj.type = "numpy.void" ->
             IF "fields" \in DOMAIN obj
             THEN TupleOf({Item(f) : f \in obj.fields})
             ELSE Leaf("bytes")
      [] OTHER -> obj

\* obj.tolist(): the element itself for a 0-d array, and a list nested as
\* deep as the array has dimensions otherwise; the elements are converted as
\* item() converts them, those of an object array are the objects it holds
RECURSIVE tolist(_)
tolist(obj) ==
    LET elements == IF obj.dtype = "object" THEN obj.elements
                    ELSE {Item(e) : e \in obj.elements}
    IN  IF obj.shape = <<>> THEN CHOOSE e \in elements : TRUE
        ELSE IF Head(obj.shape) = 0 THEN ListOf({})
        ELSE IF Len(obj.shape) = 1 THEN ListOf(elements)
        ELSE ListOf({tolist([obj EXCEPT !.shape = Tail(obj.shape)])})

\* convert_numpy_types: numpy integers and floats become what item() makes
\* of them, an array what tolist() makes of it, dicts and lists are
\* converted value by value with their keys kept, anything else (a numpy
\* bool, complex, string or datetime64 scalar too) is returned as it is
RECURSIVE convert_numpy_types(_)
convert_numpy_types(obj) ==
    CASE obj.type \in NumpyIntegers \cup NumpyFloatings -> Item(obj)
      [] obj.type = "numpy.ndarray" -> tolist(obj)
      [] obj.type = "dict" ->
             DictOf(obj.keys, {convert_numpy_types(v) : v \in obj.values})
      [] obj.type = "list" ->
             ListOf({convert_numpy_types(it) : it \in obj.items})
      [] OTHER -> obj

(***************************************************************************)
(* C15: the shape of the return values.                                    *)
(***************************************************************************)
ScalarTypes == {"str", "int", "float", "bool"}

\* a nested mapping with string keys whose leaves are strings, numbers,
\* booleans, or mappings and lists of those
RECURSIVE Representable(_)
Representable(obj) ==
    CASE obj.type = "dict" ->
             /\ obj.keys \subseteq {"str"}
             /\ \A v \in obj.values : Representable(v)
      [] obj.type = "list" -> \A item \in obj.items : Representable(item)
      [] OTHER -> obj.type \in ScalarTypes

\* C15: every value an engine returns is, numpy numbers taken as numbers, a
\* mapping with string keys whose leaves are strings, numbers, booleans or
\* nested mappings and lists of those, the result of detect_surgical_phases
\* included.
C15_ReturnsRepresentable ==
    \A i \in 1..Len(log) :
        ~log[i].ret.raised =>
            /\ ReturnType(log[i].op, log[i].ret.value).type = "dict"
            /\ Representable(convert_numpy_types(
                   ReturnType(log[i].op, log[i].ret.value)))

\* the same for the engines other than detect_surgical_phases
C15_OthersRepresentable ==
    \A i \in 1..Len(log) :
        (log[i].op # "detect_surgical_phases" /\ ~log[i].ret.raised) =>
            Representable(convert_numpy_types(
                ReturnType(log[i].op, log[i].ret.value)))

(***************************************************************************)
(* C17: the interpretation lookup.                                         *)
(***************************************************************************)
SpecialPhrase ==
    ([feature |-> "max_force_applied", metric |-> "duration_minutes"] :>
        " relationship between maximum force and procedure duration")
    @@ ([feature |-> "efficiency_rating", metric |-> "efficiency_score"] :>
        " relationship between tool efficiency and overall procedure efficiency")
    @@ ([feature |-> "usage_time_minutes", metric |-> "blood_loss_ml"] :>
        " relationship between tool usage time and blood loss")

AllPairs == {PairAt(k) : k \in 1..NPairs}

Interpreted == outcome.op = "_interpret_correlation"

\* C17: of the 16 (feature, outcome) pairs exactly the three of the table get
\* their own phrase and the other 13 get "<strength> <direction>
\* correlation", and no two pairs have the same lookup key.
C17_InterpretationLookup ==
    /\ Cardinality(AllPairs) = 16
    /\ Cardinality(AllPairs \cap DOMAIN SpecialPhrase) = 3
    /\ Cardinality(AllPairs \ DOMAIN SpecialPhrase) = 13
    /\ \A p, q \in AllPairs :
           Key(p.feature, p.metric) = Key(q.feature, q.metric) => p = q
    /\ Interpreted =>
           \A pair \in {[feature |-> outcome.feature, metric |-> outcome.metric]} :
           \A lead \in {strength_of(outcome.corr) \o " " \o direction_of(outcome.corr)} :
               /\ pair \in AllPairs
               /\ pair \in DOMAIN SpecialPhrase =>
                      outcome.ret = lead \o SpecialPhrase[pair]
               /\ pair \notin DOMAIN SpecialPhrase =>
                      outcome.ret = lead \o " correlation"

\* C17 witness: a coefficient of the pair (efficiency_rating,
\* efficiency_score) has been interpreted with its own phrase.
C17_Witness ==
    /\ Interpreted
    /\ outcome.feature = "efficiency_rating"
    /\ outcome.metric = "efficiency_score"
    /\ outcome.ret # strength_of(outcome.corr) \o " " \o direction_of(outcome.corr)
                         \o " correlation"

\* a coefficient of one of the other 13 pairs has been interpreted
C17_GenericReached ==
    /\ Interpreted
    /\ [feature |-> outcome.feature, metric |-> outcome.metric] \notin DOMAIN SpecialPhrase

(***************************************************************************)
(* C18: perform_power_analysis and its arguments.                          *)
(***************************************************************************)
PowerCalls == {i \in 1..Len(log) : log[i].op = "perform_power_analysis"}

\* C18: whatever procedures collection and metric name it is called with,
\* perform_power_analysis returns the same mapping: any two calls return
\* equal mappings of three entries, with equal sample sizes and
\* interpretation strings.
C18_PowerAnalysisStatic ==
    \A i, j \in PowerCalls :
        /\ ~log[i].ret.raised
        /\ Cardinality(DOMAIN log[i].ret.value) = 3
        /\ log[i].ret = log[j].ret
        /\ \A k \in DOMAIN log[i].ret.value :
               /\ log[i].ret.value[k].required_sample_size
                      = log[j].ret.value[k].required_sample_size
               /\ log[i].ret.value[k].interpretation
                      = log[j].ret.value[k].interpretation

\* C18 witness: two calls were made with different procedures collections
\* and different metric names.
C18_Witness ==
    \E i, j \in PowerCalls :
        /\ log[i].procedures # log[j].procedures
        /\ Len(log[i].procedures) # Len(log[j].procedures)
        /\ log[i].metric # log[j].metric

(***************************************************************************)
(* C19 and C20: the persisted procedures.                                  *)
(***************************************************************************)
Queried == outcome.op = "query_efficient_procedures"

\* how many times the row r is in the frame
Times(frame, r) == Cardinality({i \in 1..Len(frame) : frame[i] = r})

\* C19: after any sequence of saves, query_efficient_procedures(t) returns
\* exactly the rows of the collection saved last (none before the first
\* save) whose efficiency_score is strictly greater than t, each as often
\* as it was saved, in order of non-increasing efficiency_score.
C19_QueryLastSaved ==
    Queried =>
        \A result \in {outcome.ret.value} :
            /\ ~outcome.ret.raised
            /\ \A r \in Range(procedures) \cup Range(result) :
                   Times(result, r) =
                       IF r.efficiency_score > outcome.min_efficiency
                       THEN Times(procedures, r) ELSE 0
            /\ \A i, j \in 1..Len(result) :
                   i < j => result[i].efficiency_score >= result[j].efficiency_score

\* C19 witness: after a second save, of a frame with a row at the
\* threshold, a query has returned two rows of different scores.
C19_Witness ==
    /\ Queried
    /\ ncalls >= 2
    /\ Len(outcome.ret.value) >= 2
    /\ outcome.ret.value[1].efficiency_score > outcome.ret.value[2].efficiency_score
    /\ \E i \in 1..Len(procedures) :
           procedures[i].efficiency_score = outcome.min_efficiency

HasDuplicateIds(frame) ==
    \E i, j \in 1..Len(frame) :
        i # j /\ frame[i].procedure_id = frame[j].procedure_id

\* C20: the persisted procedures are keyed by procedure_id: in every
\* reachable state the table holds at most one row per procedure_id, and a
\* save of a frame with two rows of one procedure_id is rejected.
C20_KeyedByProcedureId ==
    /\ db # NoTables => ~HasDuplicateIds(db.procedures.rows)
    /\ (outcome.op = "save_procedures" /\ HasDuplicateIds(procedures)) =>
           outcome.ret.raised

\* the key is there until the first save and never after it
KeyUntilFirstSave ==
    db # NoTables =>
        (db.procedures.primary_key = "procedure_id" <=> ncalls = 0)

(***************************************************************************)
(* C24: the population of identify_efficiency_outliers.                    *)
(***************************************************************************)
\* the procedure rows with at least one tool-usage row, in their order
JoinedRows == SelectSeq(procedures, LAMBDA p : p.procedure_id \in JoinedIds)

UniqueIds ==
    \A i, j \in 1..Len(procedures) :
        procedures[i].procedure_id = procedures[j].procedure_id => i = j

\* the ids of the joined records flagged in the answer the detector gave
FlaggedIds(answer) ==
    {JoinedRows[i].procedure_id : i \in {k \in DOMAIN answer : answer[k] = -1}}

\* C24: identify_efficiency_outliers considers only the procedures with at
\* least one tool-usage row: on procedures of unique ids, the detector is
\* asked about exactly the joined records, the keys of outlier_procedures
\* are exactly the ids of the joined records it flagged, there are
\* total_outliers of them, none is a procedure without tool-usage rows, and
\* the rate is taken over the joined records.
C24_JoinedPopulation ==
    (OutliersReturned /\ UniqueIds) =>
        \A v \in {outcome.ret.value} :
            /\ Cardinality(DOMAIN lib) = 1
            /\ \A key \in DOMAIN lib :
                   /\ Len(lib[key]) = Len(JoinedRows)
                   /\ DOMAIN v.outlier_procedures = FlaggedIds(lib[key])
            /\ Cardinality(DOMAIN v.outlier_procedures) = v.total_outliers
            /\ \A i \in 1..Len(procedures) :
                   EventsOf(tool_metrics, procedures[i].procedure_id) = <<>> =>
                       procedures[i].procedure_id \notin DOMAIN v.outlier_procedures
            /\ v.outlier_rate = [s |-> v.total_outliers, n |-> Len(JoinedRows)]

\* C24 witness: a call has returned with a record flagged among three or
\* more joined records, on procedures one of which has no tool-usage rows.
C24_Witness ==
    /\ OutliersReturned
    /\ UniqueIds
    /\ Len(JoinedRows) >= 3
    /\ DOMAIN outcome.ret.value.outlier_procedures # {}
    /\ \E i \in 1..Len(procedures) :
           EventsOf(tool_metrics, procedures[i].procedure_id) = <<>>

(***************************************************************************)
(* C25: the shape of what detect_surgical_phases returns.                  *)
(***************************************************************************)
\* the names _name_surgical_phase gives
PhaseNames ==
    {"Setup/Preparation", "Active Dissection", "Precise Manipulation",
     "Closure/Finishing"}

\* the (procedure_id, timestamp_minutes) pairs of a table
PairsOf(table) ==
    {<<table[i].procedure_id, table[i].timestamp_minutes>> : i \in 1..Len(table)}

PhaseCalls ==
    {i \in 1..Len(log) : log[i].op = "detect_surgical_phases" /\ ~log[i].ret.raised}

\* the rows of the returned table with the phase id
RowsOfPhase(assigned, phase) == {i \in 1..Len(assigned) : assigned[i].phase = phase}

\* C25: what detect_surgical_phases(sensor_data, n) returns has a
\* phase_summary of exactly n entries keyed 0..n-1, each with a phase name,
\* and a phase_assignments table with exactly one row per distinct
\* (procedure_id, timestamp_minutes) pair of the input, each row with one
\* phase id in 0..n-1: the row sets of the phases partition the rows, and a
\* phase without rows has its summary entry and name all the same.
C25_PhaseShape ==
    \A c \in PhaseCalls :
        \A v \in {log[c].ret.value} :
        \A n \in {log[c].n_clusters} :
            /\ DOMAIN v.phase_summary = 0..(n - 1)
            /\ \A phase \in 0..(n - 1) :
                   v.phase_summary[phase].phase_name \in PhaseNames
            /\ PairsOf(v.phase_assignments) = PairsOf(log[c].sensor_data)
            /\ Len(v.phase_assignments) = Cardinality(PairsOf(log[c].sensor_data))
            /\ \A i \in 1..Len(v.phase_assignments) :
                   v.phase_assignments[i].phase \in 0..(n - 1)
            /\ UNION {RowsOfPhase(v.phase_assignments, phase) : phase \in 0..(n - 1)}
                   = 1..Len(v.phase_assignments)
            /\ \A p, q \in 0..(n - 1) :
                   p # q => RowsOfPhase(v.phase_assignments, p)
                                \cap RowsOfPhase(v.phase_assignments, q) = {}

\* C25 witness: a call has returned with a phase that has no rows, a phase
\* of the tool at rest and a phase of the tool at work, named as line 116
\* and line 120 name them, on sensor samples two of which share their
\* procedure and timestamp.
C25_Witness ==
    \E c \in PhaseCalls :
        /\ \E phase \in 0..(log[c].n_clusters - 1) :
               RowsOfPhase(log[c].ret.value.phase_assignments, phase) = {}
        /\ \E phase \in 0..(log[c].n_clusters - 1) :
               log[c].ret.value.phase_summary[phase].phase_name = "Setup/Preparation"
        /\ \E phase \in 0..(log[c].n_clusters - 1) :
               log[c].ret.value.phase_summary[phase].phase_name = "Precise Manipulation"
        /\ Len(log[c].sensor_data) > Cardinality(PairsOf(log[c].sensor_data))

(***************************************************************************)
(* C21, C22 and C23: what SurgicalDataLoader generates and loads.          *)
(***************************************************************************)
Generated == outcome.op = "generate_sample_data"

GeneratedAndReturned == Generated /\ ~outcome.ret.raised

IdsOf(frame) == {frame[i].procedure_id : i \in 1..Len(frame)}

\* n procedure records of pairwise distinct ids, n notes, one per procedure
\* in their order, positive durations and usage times, scores within 0-100
GeneratedAsAsked(n, notes) ==
    /\ Len(procedures) = n
    /\ Cardinality(IdsOf(procedures)) = n
    /\ Len(notes) = n
    /\ \A i \in 1..n : notes[i].procedure_id = procedures[i].procedure_id
    /\ \A i \in 1..n :
           /\ procedures[i].duration_minutes > 0
           /\ procedures[i].efficiency_score >= 0
           /\ procedures[i].efficiency_score <= 1000
    /\ \A j \in 1..Len(tool_metrics) : tool_metrics[j].usage_time_minutes > 0

\* C21: for every n >= 1, generate_sample_data(n) returns exactly n
\* procedure records with pairwise distinct procedure_id values and exactly
\* n surgical notes, one per procedure in the same order, with every
\* duration_minutes and usage_time_minutes strictly positive and every
\* efficiency_score within 0-100.
C21_GeneratedRecords ==
    (Generated /\ outcome.num_procedures >= 1) =>
        /\ ~outcome.ret.raised
        /\ GeneratedAsAsked(outcome.num_procedures, outcome.ret.value.surgical_notes)

\* what a call that returns gives is as asked
ReturnedAsAsked ==
    GeneratedAndReturned =>
        GeneratedAsAsked(outcome.num_procedures, outcome.ret.value.surgical_notes)

\* a call for more than one procedure has returned
ReturnedSeveral == GeneratedAndReturned /\ outcome.num_procedures > 1

RowsOf(frame, id) == SelectSeq(frame, LAMBDA r : r.procedure_id = id)

\* the even numbers from 0 that are strictly below the integer part of the
\* duration
EvenBelow(duration_minutes) ==
    {t \in 0..((duration_minutes \div 10) - 1) : t % 2 = 0}

\* C22: in what generate_sample_data(n) returns, every tool-usage event and
\* every sensor sample has the procedure_id of a generated procedure; every
\* procedure has between 3 and 7 tool-usage events, of pairwise distinct
\* tool types; and there are sensor samples for exactly min(50, n)
\* procedures, for each of them one at each of the timestamps 0, 2, 4, ...
\* strictly below the integer part of its duration.
C22_EventsAndSamples ==
    GeneratedAndReturned =>
        /\ IdsOf(tool_metrics) \subseteq IdsOf(procedures)
        /\ IdsOf(sensor_data) \subseteq IdsOf(procedures)
        /\ \A i \in 1..Len(procedures) :
               \A events \in {RowsOf(tool_metrics, procedures[i].procedure_id)} :
                   /\ Len(events) >= 3
                   /\ Len(events) <= 7
                   /\ Cardinality({events[j].tool_type : j \in 1..Len(events)})
                          = Len(events)
        /\ Cardinality(IdsOf(sensor_data))
               = IF outcome.num_procedures < 50 THEN outcome.num_procedures ELSE 50
        /\ \A i \in 1..Len(procedures) :
               \A samples \in {RowsOf(sensor_data, procedures[i].procedure_id)} :
                   samples # <<>> =>
                       /\ {samples[j].timestamp_minutes : j \in 1..Len(samples)}
                              = EvenBelow(procedures[i].duration_minutes)
                       /\ Len(samples)
                              = Cardinality(EvenBelow(procedures[i].duration_minutes))

\* C22 witness: a call for more than 50 procedures has returned, with
\* procedures of 3 and of 6 tool-usage events, and with samples of a
\* procedure whose duration has an even integer part.
C22_Witness ==
    /\ GeneratedAndReturned
    /\ outcome.num_procedures > 50
    /\ \E i \in 1..Len(procedures) :
           Len(RowsOf(tool_metrics, procedures[i].procedure_id)) = 3
    /\ \E i \in 1..Len(procedures) :
           Len(RowsOf(tool_metrics, procedures[i].procedure_id)) = 6
    /\ \E i \in 1..Len(procedures) :
           /\ (procedures[i].duration_minutes \div 10) % 2 = 0
           /\ procedures[i].procedure_id \in IdsOf(sensor_data)

LoadedProcedures == outcome.op = "load_procedures_data"

\* generate_sample_data has been called on the data path
GeneratedBefore == files.procedures.exists

\* what was loaded is what the last call of generate_sample_data wrote:
\* procedures is the frame that call made
LoadedLastWritten ==
    /\ ~outcome.ret.raised
    /\ Len(outcome.ret.value.rows) = Len(procedures)
    /\ \A i \in 1..Len(procedures) :
           outcome.ret.value.rows[i].procedure_id = procedures[i].procedure_id
    /\ {"procedure_id", "procedure_type", "duration_minutes"}
           \subseteq Range(outcome.ret.value.columns)

\* C23: after any sequence of generate_sample_data calls on one data path,
\* load_procedures_data returns the procedure records the most recent call
\* wrote: as many records, with the columns procedure_id, procedure_type
\* and duration_minutes, and nothing of what earlier calls wrote.
C23_LoadLastGenerated ==
    (LoadedProcedures /\ GeneratedBefore) => LoadedLastWritten

\* the same when the most recent call was asked for a procedure or more
LoadLastGeneratedSome ==
    (LoadedProcedures /\ GeneratedBefore /\ Len(procedures) >= 1) =>
        LoadedLastWritten

\* procedures were loaded that a call wrote before it raised, the other
\* files being those of an earlier call
LoadedAfterFailedCall ==
    /\ LoadedProcedures
    /\ ~outcome.ret.raised
    /\ tool_metrics = <<>>
    /\ files.tool_metrics.exists
    /\ IdsOf(files.tool_metrics.records) # {}
    /\ Len(files.surgical_notes.notes) # Len(procedures)

====
